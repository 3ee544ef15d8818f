----------------------------- MODULE SendRouter -----------------------------
(***************************************************************************)
(* One POST /v1/messages (src/src/ipc.rs, handle_request and               *)
(* SendRouter::send) beside the setups and the managers of Setup: the two  *)
(* snapshots it takes, the choice of the targets, the posts one after the  *)
(* other, and the response.  What a manager does with a post is the        *)
(* subject of ServerManager; here it answers, truthfully, in its own time. *)
(***************************************************************************)
EXTENDS Setup

VARIABLES
    stage,      \* where the request is
    to,         \* the server it names, or All
    snapshot,   \* the status it has seen
    known,      \* the handles it has seen
    todo,       \* the targets it has not tried
    posting,    \* the target it waits for, or All
    results,    \* what it has collected
    response,
    taken       \* the servers that have taken the message

reqVars == <<stage, to, snapshot, known, todo, posting, results, response, taken>>
routerVars == <<vars, reqVars>>

All == "*"

ASSUME RouterAssumption == All \notin Servers

Codes == {"none", "ok", "invalid_request", "unknown_server", "subspace_unavailable", "lost"}

RouterTypeOK ==
    /\ TypeOK
    /\ stage \in {"idle", "asked", "seen", "sending", "done"}
    /\ to \in Servers \cup {All} /\ posting \in Servers \cup {All}
    /\ snapshot \in [Servers -> {"absent", "down", "live"}]
    /\ known \subseteq Servers /\ todo \subseteq Servers /\ taken \subseteq Servers
    /\ results \in [Servers -> {"none", "sent", "failed"}]
    /\ response \in Codes
    /\ posting # All => stage = "sending" /\ posting \in known

RouterInit ==
    /\ Init
    /\ stage = "idle" /\ to \in Servers \cup {All} /\ posting = All
    /\ snapshot = [s \in Servers |-> "absent"]
    /\ known = {} /\ todo = {} /\ taken = {}
    /\ results = [s \in Servers |-> "none"]
    /\ response = "none"

\* The request is answered with an error that carries no results.
Refuse(code) ==
    /\ stage' = "done" /\ response' = code
    /\ results' = [s \in Servers |-> "none"]

\* The body is not JSON, has no text, or asks for embeddings it may not.
Reject ==
    /\ stage = "idle" /\ daemon = "running"
    /\ Refuse("invalid_request")
    /\ UNCHANGED <<vars, to, snapshot, known, todo, posting, taken>>

SnapStatus ==
    /\ stage = "idle" /\ daemon = "running"
    /\ stage' = "asked" /\ snapshot' = status
    /\ UNCHANGED <<vars, to, known, todo, posting, results, response, taken>>

SnapHandles ==
    /\ stage = "asked"
    /\ stage' = "seen" /\ known' = handles
    /\ UNCHANGED <<vars, to, snapshot, todo, posting, results, response, taken>>

Live == {s \in Servers : snapshot[s] = "live"}

\* The targets are the server that is named, or all that were live.
Route ==
    /\ stage = "seen"
    /\ \/ /\ to # All /\ to \notin known
          /\ Refuse("unknown_server")
          /\ UNCHANGED todo
       \/ /\ to = All \/ to \in known
          /\ (IF to = All THEN Live ELSE {to} \cap Live) = {}
          /\ Refuse("subspace_unavailable")
          /\ UNCHANGED todo
       \/ /\ to = All \/ to \in known
          /\ todo' = (IF to = All THEN Live ELSE {to} \cap Live)
          /\ todo' # {}
          /\ stage' = "sending"
          /\ UNCHANGED <<results, response>>
    /\ UNCHANGED <<vars, to, snapshot, known, posting, taken>>

\* The next target has no handle: what was sent before it goes unreported.
LosesTarget(s) ==
    /\ stage = "sending" /\ posting = All
    /\ s \in todo \ known
    /\ Refuse("unknown_server")
    /\ UNCHANGED <<vars, to, snapshot, known, todo, posting, taken>>

Post(s) ==
    /\ stage = "sending" /\ posting = All
    /\ s \in todo \cap known
    /\ posting' = s /\ todo' = todo \ {s}
    /\ UNCHANGED <<vars, stage, to, snapshot, known, results, response, taken>>

\* The server takes the post, while its manager is there to bring it.
ServerTakes(s) ==
    /\ posting = s /\ managers[s] > 0
    /\ taken' = taken \cup {s}
    /\ UNCHANGED <<vars, stage, to, snapshot, known, todo, posting, results, response>>

PostSucceeds(s) ==
    /\ posting = s /\ s \in taken
    /\ results' = [results EXCEPT ![s] = "sent"] /\ posting' = All
    /\ UNCHANGED <<vars, stage, to, snapshot, known, todo, response, taken>>

\* Mutant of PostFails: the first failure ends the request.
PostFailsEarly(s) ==
    /\ posting = s /\ posting' = All
    /\ Refuse("subspace_unavailable")
    /\ UNCHANGED <<vars, to, snapshot, known, todo, taken>>

\* Mutant of PostFails: a failed target is left out of the results.
PostFailsUnreported(s) ==
    /\ posting = s /\ posting' = All
    /\ UNCHANGED <<vars, stage, to, snapshot, known, todo, results, response, taken>>

PostFails(s) ==
    /\ posting = s
    /\ results' = [results EXCEPT ![s] = "failed"] /\ posting' = All
    /\ UNCHANGED <<vars, stage, to, snapshot, known, todo, response, taken>>

\* Mutant of Respond: one success is enough.
RespondLeniently ==
    /\ stage = "sending" /\ posting = All /\ todo = {}
    /\ stage' = "done"
    /\ response' = IF \E s \in Servers : results[s] = "sent" THEN "ok" ELSE "subspace_unavailable"
    /\ UNCHANGED <<vars, to, snapshot, known, todo, posting, results, taken>>

\* A partial failure is answered like a server that is not live (mixed_failure); the
\* results are what tells them apart.
Respond ==
    /\ stage = "sending" /\ posting = All /\ todo = {}
    /\ stage' = "done"
    /\ response' = IF \E s \in Servers : results[s] = "failed"
                     THEN "subspace_unavailable" ELSE "ok"
    /\ UNCHANGED <<vars, to, snapshot, known, todo, posting, results, taken>>

\* The daemon ends with the request.
Lost ==
    /\ DaemonEnds
    /\ stage \in {"asked", "seen", "sending"}
    /\ Refuse("lost") /\ posting' = All
    /\ UNCHANGED <<to, snapshot, known, todo, taken>>

Next ==
    \/ SetupNext /\ (daemon' = "off" => stage \in {"idle", "done"}) /\ UNCHANGED reqVars
    \/ Lost
    \/ Reject \/ SnapStatus \/ SnapHandles \/ Route \/ Respond
    \/ \E s \in Servers :
        \/ LosesTarget(s) \/ Post(s) \/ ServerTakes(s) \/ PostSucceeds(s) \/ PostFails(s)

Spec == RouterInit /\ [][Next]_routerVars

-----------------------------------------------------------------------------
(* Properties. *)

\* A response of 200 is a promise: the server it names, or every server that was
\* live when the request came in, has taken the message, however the managers
\* and the handles have changed since the snapshots.
OkMeansTaken ==
    response = "ok" =>
        \A s \in Servers : s = to \/ (to = All /\ snapshot[s] = "live") => s \in taken

\* The request has been answered, and the answer lists results.
Answered == response \notin {"none", "lost"}
HasResults == \E s \in Servers : results[s] # "none"

\* A response with results, be it 200 or the 503 of a partial failure, accounts for
\* every server that took the message: the caller can tell whom not to send it to again.
TakenIsReported ==
    Answered /\ HasResults => \A s \in taken : results[s] # "none"

\* A response without results, be it 400, 404 or 503, means that nobody has taken the
\* message and that it can be repeated safely.  The code has one exception, and this is
\* when: the 404 of a request to all that has met a server that is live and has no
\* handle yet, after servers that did take the message.
RefusedMeansUnsent ==
    Answered /\ ~HasResults /\ taken # {} =>
        response = "unknown_server" /\ to = All /\ ~(Live \subseteq known)

\* What a 404 is true of: the server that is named, or one that was reported as live,
\* is not of the configuration that the daemon has started with; it has been added
\* since, or is not there at all.
UnknownMeansUnloaded ==
    [][response' = "unknown_server" /\ response = "none" =>
        IF to = All THEN Live \ loaded # {} ELSE to \notin loaded]_routerVars

\* What the README says of 404: the server is not in the configuration.
UnknownMeansUnconfigured ==
    response = "unknown_server" => IF to = All THEN FALSE ELSE to \notin config

-----------------------------------------------------------------------------
(***************************************************************************)
(* The inductive invariant behind them: before the first post nothing is   *)
(* taken and nothing collected; then every target is still to be tried,    *)
(* waited for or in the results, and so is every server that has taken the *)
(* message.                                                                *)
(***************************************************************************)
IsTarget(s) == s = to \/ (to = All /\ snapshot[s] = "live")

RouterInv ==
    /\ stage = "done" <=> response # "none"
    /\ stage \in {"idle", "asked", "seen"} =>
          taken = {} /\ \A s \in Servers : results[s] = "none"
    /\ stage = "sending" =>
          /\ \A s \in Servers :
              IsTarget(s) => s \in todo \/ posting = s \/ results[s] # "none"
          /\ \A s \in taken : posting = s \/ results[s] # "none"
          /\ \A s \in Servers : results[s] = "sent" => s \in taken
          /\ IF to = All THEN todo \subseteq Live ELSE todo \subseteq known
    /\ OkMeansTaken /\ TakenIsReported /\ RefusedMeansUnsent

\* A request is at work only in a daemon that is up, and has seen the handles of all
\* the servers that the daemon has started with.
SeenInv ==
    /\ daemon = "running" => loaded \subseteq handles
    /\ stage \in {"asked", "seen", "sending"} => daemon = "running"
    /\ stage \in {"seen", "sending"} => loaded \subseteq known
=============================================================================
