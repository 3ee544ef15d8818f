--------------------------- MODULE ServerManager ---------------------------
(***************************************************************************)
(* One server manager (src/src/subspace/client.rs, run_server_manager and  *)
(* connect_once): the reconnect loop with its backoff and storm guard, the *)
(* session it loads, refreshes and persists, the status it reports, and    *)
(* the outbound sends that ServerHandle::send_message hands to it.         *)
(* Beside it run the callers of send_message, the Subspace server, and     *)
(* setup requests (src/src/setup.rs), which write the same session file.   *)
(* Inbound messages are the subject of WakeDelivery.                       *)
(*                                                                         *)
(* An error that the manager returns (an unreadable session, a failing     *)
(* flush) makes the supervisor end the process; Crash stands for it.       *)
(***************************************************************************)
EXTENDS StormGuard, Queues

CONSTANTS
    Sends,        \* outbound sends
    CmdCap,       \* capacity of the command channel (128)
    RetryBase, RetryMax

ASSUME ManagerAssumption ==
    /\ CmdCap \in Nat \ {0}
    /\ RetryBase \in Nat /\ RetryMax \in Nat /\ RetryBase <= RetryMax

VARIABLES
    pc,         \* where the manager is
    storm, age, \* the storm guard in memory, and the age of its failure window
    disk,       \* the storm guard in runtime.json
    backoff, wait,
    session,    \* the session in memory
    file,       \* subspace-session.json
    status,     \* subspace_state of /healthz
    cmds,       \* the command channel
    posted,     \* sends on the wire, waiting for their phx_reply
    answer,     \* what send_message has returned to each caller
    taken,      \* posts the server has taken
    seen        \* the session a running setup has loaded, or NoSetup

stormVars == <<storm, age, disk>>
retryVars == <<backoff, wait>>
sessionVars == <<session, file>>
sendVars == <<cmds, posted, answer, taken>>
vars == <<pc, stormVars, retryVars, sessionVars, status, sendVars, seen>>

(***************************************************************************)
(* A session is in the current format or in the legacy one, and its token  *)
(* is missing, expires within a day ("expiring"), or later ("fresh").      *)
(***************************************************************************)
Sessions == [kind : {"none", "legacy", "current", "idle"},
             token : {"none", "expiring", "fresh"}]
NoSession == [kind |-> "none", token |-> "none"]
NoSetup == [kind |-> "idle", token |-> "none"]

Pcs == {"down", "top", "cooling", "load", "auth", "connect", "join", "live",
        "refresh", "sleep", "stopped"}
States == {"connecting", "authenticating", "subspace_auth_required", "live",
           "reconnecting", "reconnect_cooldown"}
Answers == {"none", "waiting", "ok", "error"}

Queued == Elems(cmds)

TypeOK ==
    /\ pc \in Pcs
    /\ storm \in Storms /\ disk \in Storms
    /\ age \in {NoWindow} \cup (0..(FailureWindow + 1))
    /\ backoff \in 0..RetryMax /\ wait \in Nat
    /\ session \in Sessions /\ file \in Sessions /\ seen \in Sessions
    /\ status \in States
    /\ cmds \in Seq(Sends) /\ Len(cmds) <= CmdCap
    /\ posted \subseteq Sends /\ taken \subseteq Sends
    /\ answer \in [Sends -> Answers]

Init ==
    /\ pc = "down"
    /\ storm = CleanStorm /\ age = NoWindow /\ disk = CleanStorm
    /\ backoff = RetryBase /\ wait = 0
    /\ session = NoSession
    /\ file \in {NoSession, [kind |-> "legacy", token |-> "fresh"],
                [kind |-> "current", token |-> "fresh"]}
    /\ status = "connecting"
    /\ cmds = <<>> /\ posted = {} /\ answer = [x \in Sends |-> "none"] /\ taken = {}
    /\ seen = NoSetup

-----------------------------------------------------------------------------
(* Steps of several handlers. *)

\* The reply senders of these sends are dropped or given an error: the callers'
\* send_message returns an error.
FailSends(xs) == answer' = [x \in Sends |-> IF x \in xs THEN "error" ELSE answer[x]]

\* Mutant of DropPosted: the reply senders leak.
LeakPosted == posted' = {} /\ UNCHANGED <<cmds, answer, taken>>

\* connect_once returns: pending is dropped with it, the command channel is not.
DropPosted == FailSends(posted) /\ posted' = {} /\ UNCHANGED <<cmds, taken>>

\* The manager returns: the command channel goes too.
DropAll ==
    /\ FailSends(posted \cup Queued)
    /\ posted' = {} /\ cmds' = <<>> /\ UNCHANGED taken

\* record_reconnect_failure and flush; then the cooldown, or a sleep of jitter(b).
RecordFailure(b, state) ==
    \E s \in AfterFailure(storm, age) :
        /\ storm' = s /\ disk' = s
        /\ age' = WindowAfterFailure(storm, age)
        /\ backoff' = b
        /\ IF s.failures >= FailureThreshold
           THEN pc' = "top" /\ status' = "reconnect_cooldown" /\ wait' = 0
           ELSE pc' = "sleep" /\ status' = state /\ wait' \in Jitter(b)

\* session.persist: the whole record in memory replaces the file.
Persist(s) == session' = s /\ file' = s

\* What the server may issue at a challenge-response.
Renewed(s) == {[s EXCEPT !.token = t] : t \in {"fresh", "expiring"}}

\* session_expires_soon; a session without token has no expiry and counts as such.
ExpiresSoon(s) == s.token # "fresh"

-----------------------------------------------------------------------------
(* The process. *)

\* Mutant of Start: the storm guard of runtime.json is not loaded.
StartAfresh ==
    /\ pc = "down"
    /\ pc' = "top"
    /\ storm' = CleanStorm /\ age' = NoWindow
    /\ backoff' = RetryBase /\ wait' = 0
    /\ status' = "connecting"
    /\ UNCHANGED <<disk, sessionVars, sendVars, seen>>

\* run_server_manager begins: RuntimeStore::load, backoff at its base.
Start ==
    /\ pc = "down"
    /\ pc' = "top"
    /\ storm' = disk /\ age' = LoadWindow(disk)
    /\ backoff' = RetryBase /\ wait' = 0
    /\ status' = "connecting"
    /\ UNCHANGED <<disk, sessionVars, sendVars, seen>>

Crash ==
    /\ pc # "down"
    /\ pc' = "down"
    /\ storm' = CleanStorm /\ age' = NoWindow
    /\ session' = NoSession
    /\ seen' = NoSetup
    /\ DropAll
    /\ UNCHANGED <<disk, retryVars, file, status>>

\* The shutdown broadcast, seen where the manager selects on it: not inside a
\* websocket connect or a challenge-response.
Stop ==
    /\ pc \in {"cooling", "sleep", "join", "live"}
    /\ pc' = "stopped"
    /\ DropAll
    /\ UNCHANGED <<stormVars, retryVars, sessionVars, status, seen>>

Tick ==
    /\ storm' = StormTick(storm) /\ disk' = StormTick(disk) /\ age' = WindowTick(age)
    /\ wait' = IF wait > 0 THEN wait - 1 ELSE 0
    /\ UNCHANGED <<pc, backoff, sessionVars, status, sendVars, seen>>

\* A token comes within a day of its expiry.
TokenAges ==
    LET Older(s) == [s EXCEPT !.token = IF @ = "fresh" THEN "expiring" ELSE @] IN
    /\ session' = Older(session) /\ file' = Older(file) /\ seen' = Older(seen)
    /\ UNCHANGED <<pc, stormVars, retryVars, status, sendVars>>

-----------------------------------------------------------------------------
(* The reconnect loop. *)

\* wait_for_reconnect_cooldown_if_needed.
CheckCooldown ==
    /\ pc = "top"
    /\ IF storm.cooldown = NoCooldown
       THEN pc' = "load" /\ UNCHANGED status
       ELSE /\ pc' = IF storm.until > 0 THEN "cooling" ELSE "load"
            /\ status' = "reconnect_cooldown"
    /\ UNCHANGED <<stormVars, retryVars, sessionVars, sendVars, seen>>

CooldownOver ==
    /\ pc = "cooling" /\ storm.until = 0
    /\ pc' = "load"
    /\ UNCHANGED <<stormVars, retryVars, sessionVars, status, sendVars, seen>>

\* load_session_record; without a session the manager sleeps and tries again,
\* which is not a reconnect failure.
LoadSession ==
    /\ pc = "load"
    /\ session' = file
    /\ \/ /\ file = NoSession
          /\ pc' = "sleep" /\ status' = "subspace_auth_required"
          /\ wait' \in Jitter(backoff)
       \/ /\ file # NoSession /\ file.token = "none"
          /\ pc' = "auth" /\ status' = "authenticating" /\ UNCHANGED wait
       \/ /\ file # NoSession /\ file.token # "none"
          /\ pc' = "connect" /\ status' = "connecting" /\ UNCHANGED wait
    /\ UNCHANGED <<stormVars, backoff, file, sendVars, seen>>

SleepOver ==
    /\ pc = "sleep" /\ wait = 0
    /\ pc' = "top"
    /\ backoff' = Lesser(2 * backoff, RetryMax)
    /\ UNCHANGED <<stormVars, wait, sessionVars, status, sendVars, seen>>

AuthSucceeds ==
    /\ pc = "auth"
    /\ \E s \in Renewed(session) : Persist(s)
    /\ pc' = "connect" /\ status' = "connecting"
    /\ UNCHANGED <<stormVars, retryVars, sendVars, seen>>

AuthFails ==
    /\ pc = "auth"
    /\ RecordFailure(backoff, "subspace_auth_required")
    /\ UNCHANGED <<sessionVars, sendVars, seen>>

Connected ==
    /\ pc = "connect"
    /\ pc' = "join"
    /\ UNCHANGED <<stormVars, retryVars, sessionVars, status, sendVars, seen>>

\* The connect fails, or the connection is lost before the join is answered.
ConnectFails ==
    /\ pc \in {"connect", "join"}
    /\ RecordFailure(backoff, "reconnecting")
    /\ UNCHANGED <<sessionVars, sendVars, seen>>

\* The server rejects the join; it may call the token invalid or revoked.
JoinRejected ==
    /\ pc = "join"
    /\ Persist([session EXCEPT !.token = "none"]) \/ UNCHANGED sessionVars
    /\ RecordFailure(backoff, "reconnecting")
    /\ UNCHANGED <<sendVars, seen>>

\* The join is accepted: clear_reconnect_storm and flush.
Joined ==
    /\ pc = "join"
    /\ pc' = "live"
    /\ status' = "live"
    /\ storm' = CleanStorm /\ age' = NoWindow /\ disk' = CleanStorm
    /\ UNCHANGED <<retryVars, sessionVars, sendVars, seen>>

-----------------------------------------------------------------------------
(* The live loop of connect_once. *)

\* Mutant of ConnectionLost: the posts of the lost connection are kept.
LostKeepingPosted ==
    /\ pc = "live"
    /\ RecordFailure(RetryBase, "reconnecting")
    /\ UNCHANGED <<sessionVars, sendVars, seen>>

\* The connection is lost, or the wake queue is full or closed.
ConnectionLost ==
    /\ pc = "live"
    /\ RecordFailure(RetryBase, "reconnecting")
    /\ DropPosted
    /\ UNCHANGED <<sessionVars, seen>>

\* Mutant of RefreshSession: the refresh is not reported.
RefreshUnreported ==
    /\ pc = "live" /\ ExpiresSoon(session)
    /\ pc' = "refresh"
    /\ UNCHANGED <<stormVars, retryVars, sessionVars, status, sendVars, seen>>

\* A heartbeat tick of a session that expires soon.
RefreshSession ==
    /\ pc = "live" /\ ExpiresSoon(session)
    /\ pc' = "refresh" /\ status' = "authenticating"
    /\ UNCHANGED <<stormVars, retryVars, sessionVars, sendVars, seen>>

\* fail_pending_sends, and a reconnect without sleep that is not a failure.
RefreshSucceeds ==
    /\ pc = "refresh"
    /\ \E s \in Renewed(session) : Persist(s)
    /\ DropPosted
    /\ pc' = "top" /\ status' = "reconnecting" /\ backoff' = RetryBase
    /\ UNCHANGED <<stormVars, wait, seen>>

RefreshFails ==
    /\ pc = "refresh"
    /\ RecordFailure(RetryBase, "reconnecting")
    /\ DropPosted
    /\ UNCHANGED <<sessionVars, seen>>

\* cmd_rx.recv and the write of the post_message frame.
Post ==
    /\ pc = "live" /\ cmds # <<>>
    /\ posted' = posted \cup {Head(cmds)} /\ cmds' = Tail(cmds)
    /\ UNCHANGED <<pc, stormVars, retryVars, sessionVars, status, answer,
                   taken, seen>>

\* The write fails: the command is gone with its reply sender.
PostFails ==
    /\ pc = "live" /\ cmds # <<>>
    /\ RecordFailure(RetryBase, "reconnecting")
    /\ FailSends(posted \cup {Head(cmds)}) /\ posted' = {} /\ cmds' = Tail(cmds)
    /\ UNCHANGED <<sessionVars, taken, seen>>

\* The server takes a post that is on the wire.
ServerTakes(x) ==
    /\ x \in posted
    /\ taken' = taken \cup {x}
    /\ UNCHANGED <<pc, stormVars, retryVars, sessionVars, status, cmds,
                   posted, answer, seen>>

\* Mutant of ReplyOk: a reply is matched to its caller without a look at pending.
ReplyUnmatched(x) ==
    /\ pc = "live" /\ x \in taken
    /\ answer' = [answer EXCEPT ![x] = "ok"] /\ posted' = posted \ {x}
    /\ UNCHANGED <<pc, stormVars, retryVars, sessionVars, status, cmds, taken,
                   seen>>

\* The phx_reply of a post, ok.
ReplyOk(x) ==
    /\ pc = "live" /\ x \in posted \cap taken
    /\ answer' = [answer EXCEPT ![x] = "ok"] /\ posted' = posted \ {x}
    /\ UNCHANGED <<pc, stormVars, retryVars, sessionVars, status, cmds, taken,
                   seen>>

\* The phx_reply of a post, an error; with an invalid or revoked token the session
\* loses its token while the connection stays.
ReplyError(x) ==
    /\ pc = "live" /\ x \in posted \ taken
    /\ answer' = [answer EXCEPT ![x] = "error"] /\ posted' = posted \ {x}
    /\ Persist([session EXCEPT !.token = "none"]) \/ UNCHANGED sessionVars
    /\ UNCHANGED <<pc, stormVars, retryVars, status, cmds, taken, seen>>

-----------------------------------------------------------------------------
(* Callers and setup. *)

\* ServerHandle::send_message, once the channel has room; there is no timeout.
Send(x) ==
    /\ pc # "down" /\ answer[x] = "none"
    /\ \/ /\ pc = "stopped"
          /\ answer' = [answer EXCEPT ![x] = "error"] /\ UNCHANGED cmds
       \/ /\ pc # "stopped" /\ Len(cmds) < CmdCap
          /\ answer' = [answer EXCEPT ![x] = "waiting"] /\ cmds' = Append(cmds, x)
    /\ UNCHANGED <<pc, stormVars, retryVars, sessionVars, status, posted,
                   taken, seen>>

\* perform_setup for this server, under the mutation lock: it loads the session,
SetupLoads ==
    /\ pc # "down" /\ seen = NoSetup
    /\ seen' = file
    /\ UNCHANGED <<pc, stormVars, retryVars, sessionVars, status, sendVars>>

\* and then registers the identity, migrates a legacy session, or leaves a current
\* one as it is.  The manager of the server runs already, so none is spawned.
SetupWrites ==
    /\ seen # NoSetup
    /\ \/ /\ seen = NoSession
          /\ \E t \in {"fresh", "expiring"} : file' = [kind |-> "current", token |-> t]
       \/ /\ seen.kind = "legacy"
          /\ file' = [seen EXCEPT !.kind = "current"]
       \/ /\ seen.kind = "current"
          /\ UNCHANGED file
    /\ seen' = NoSetup
    /\ UNCHANGED <<pc, stormVars, retryVars, session, status, sendVars>>

-----------------------------------------------------------------------------
LoopStep ==
    \/ CheckCooldown \/ CooldownOver \/ LoadSession \/ SleepOver
    \/ AuthSucceeds \/ AuthFails \/ Connected \/ ConnectFails
    \/ JoinRejected \/ Joined

LiveStep ==
    \/ ConnectionLost \/ RefreshSession \/ RefreshSucceeds \/ RefreshFails
    \/ Post \/ PostFails
    \/ \E x \in Sends : ServerTakes(x) \/ ReplyOk(x) \/ ReplyError(x)

Next ==
    \/ Start \/ Crash \/ Stop \/ Tick \/ TokenAges
    \/ LoopStep \/ LiveStep
    \/ \E x \in Sends : Send(x)
    \/ SetupLoads \/ SetupWrites

Spec == Init /\ [][Next]_vars

(***************************************************************************)
(* Fairness: time passes, the manager runs, a process that ended is        *)
(* started again (launchd), and the server, tried again and again, lets    *)
(* the daemon authenticate, connect and join, and answers the posts of a   *)
(* connection that lasts.                                                  *)
(***************************************************************************)
LiveSpec ==
    /\ Spec
    /\ WF_vars(Tick) /\ WF_vars(Start)
    /\ WF_vars(CheckCooldown) /\ WF_vars(CooldownOver) /\ WF_vars(LoadSession)
    /\ WF_vars(SleepOver) /\ WF_vars(AuthSucceeds \/ AuthFails)
    /\ WF_vars(Connected \/ ConnectFails)
    /\ WF_vars(ConnectFails \/ JoinRejected \/ Joined)
    /\ WF_vars(RefreshSucceeds \/ RefreshFails) /\ SF_vars(Post)
    /\ SF_vars(AuthSucceeds) /\ SF_vars(Connected) /\ SF_vars(Joined)
    /\ \A x \in Sends : WF_vars(ServerTakes(x)) /\ WF_vars(ReplyOk(x) \/ ReplyError(x))

-----------------------------------------------------------------------------
(* Properties. *)

\* The storm guard holds in memory and on disk: from the threshold on there is a
\* cooldown, below it there is none, and the configured maximum bounds it whatever
\* doubling and jitter make of it (record_reconnect_failure, load).
StormGuarded ==
    \A s \in {storm, disk} :
        /\ s.failures >= FailureThreshold /\ s.failures > 0 <=> s.cooldown # NoCooldown
        /\ s.until <= MaxCooldown

\* No attempt, be it a challenge-response or a connect, starts while a cooldown
\* that runtime.json records is running, also after a crash and restart.
CooldownHonoured ==
    [][pc \notin {"auth", "connect"} /\ pc' \in {"auth", "connect"}
          => disk.until = 0]_vars

\* Every caller that waits has its reply sender in the command channel or among
\* the posts of a live connection, and nowhere twice: none is forgotten when the
\* connection, the session or the manager ends.
WaitingIsHeld ==
    /\ {x \in Sends : answer[x] = "waiting"} = Queued \cup posted
    /\ Queued \cap posted = {}
    /\ \A i, j \in 1..Len(cmds) : cmds[i] = cmds[j] => i = j
    /\ posted # {} => pc \in {"live", "refresh"}
    /\ pc \in {"down", "stopped"} => cmds = <<>>

Contract == INSTANCE Requests WITH Reqs <- Sends

\* Through every reconnect, refresh and crash the manager keeps the contract of a
\* request: a caller of send_message is answered once, and ok only for a message
\* that the server took.
KeepsContract == Contract!Spec

\* Health reports "live", and the send router picks the server, only while the
\* connection is up or once the manager was told to stop (connect_once returns
\* from a shutdown without a word; every other way out reports).
LiveIsConnected == status = "live" /\ pc # "down" => pc \in {"live", "stopped"}

\* A send comes to an end as long as the server can be reached again and again.
SendsEnd ==
    [](file # NoSession) =>
        \A x \in Sends : answer[x] = "waiting" ~> answer[x] \in {"ok", "error"}

\* A manager with a session gets live again, whatever backoff and cooldown its
\* earlier failures have earned.
ComesBack ==
    <>[](file # NoSession /\ pc \notin {"down", "stopped"}) => []<>(pc = "live")

\* README.md on legacy sessions: pass --identity "once to migrate that server into
\* the named-identity layout".  Once migrated, a session file stays migrated.
MigrationStays ==
    [][file.kind = "current" => file'.kind = "current"]_vars

\* What does hold of a migration: only a manager that still holds the legacy record
\* can undo it, and once it has loaded the migrated one, at a reconnect or after a
\* restart, no later refresh, rejection or setup brings the legacy format back.
Settled == file.kind = "current" /\ session.kind # "legacy"
MigrationSettles == [][Settled => Settled']_vars

-----------------------------------------------------------------------------
(***************************************************************************)
(* The inductive invariant behind the safety properties.  The storm guard  *)
(* in memory is the one on disk, and a manager about to load its session   *)
(* has sat out the cooldown; a caller that was told ok has its message     *)
(* taken.                                                                  *)
(***************************************************************************)
StormInv ==
    /\ StormGuarded
    /\ \A s \in {storm, disk} : s.cooldown = NoCooldown => s.until = 0
    /\ pc # "down" => storm = disk
    /\ pc = "load" => disk.until = 0

SendInv ==
    /\ WaitingIsHeld
    /\ \A x \in Sends : answer[x] = "ok" => x \in taken

Inv == TypeOK /\ StormInv /\ SendInv

\* A manager that authenticates or connects holds the session of a file.
Formats == {"none", "legacy", "current"}
SessionInv ==
    /\ session.kind \in Formats /\ file.kind \in Formats
    /\ file.kind = "none" => file = NoSession
    /\ pc \in {"auth", "connect", "join", "live", "refresh"} => session.kind # "none"
=============================================================================
