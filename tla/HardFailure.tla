----------------------------- MODULE HardFailure -----------------------------
(***************************************************************************)
(* The operator's hooks (src/src/hard_failure.rs): a task that reports a   *)
(* failure runs every enabled hook in turn, one child process after the    *)
(* other, except those that the throttle holds back.  last_sent is shared  *)
(* by all the tasks of the process and lost with it.                       *)
(*                                                                         *)
(* An event is what the throttle tells apart: kind, component and target.  *)
(* The payload is written to the child before its timeout begins: a child  *)
(* that does not read a payload larger than the pipe holds fire up for as  *)
(* long as it lives.                                                       *)
(***************************************************************************)
EXTENDS Naturals, Sequences

CONSTANTS Firers,   \* the tasks that report failures
          Events, NoEvent

ASSUME HookAssumption == NoEvent \notin Events

VARIABLES
    hooks,      \* the configured hooks: [key, throttled, enabled], throttled if
                \* throttle_ms > 0
    lastSent,   \* <<hook key, event>> pairs sent within throttle_ms
    firing,     \* the event each task is reporting, or NoEvent
    at,         \* the hook it has come to
    child,      \* is the hook's process being written to, or waited for?
    tried       \* <<hook, event>> pairs whose hook was run in this process

hookVars == <<hooks, lastSent, firing, at, child, tried>>

HookTypeOK ==
    /\ Len(hooks) \in Nat
    /\ \A i \in 1..Len(hooks) : hooks[i].throttled \in BOOLEAN /\ hooks[i].enabled \in BOOLEAN
    /\ firing \in [Firers -> Events \cup {NoEvent}]
    /\ at \in [Firers -> Nat \ {0}]
    /\ child \in [Firers -> {"none", "writing", "waiting"}]
    /\ \A f \in Firers :
        /\ firing[f] # NoEvent => at[f] \in 1..Len(hooks) + 1
        /\ child[f] # "none" => firing[f] # NoEvent /\ at[f] <= Len(hooks)
    /\ tried \subseteq (1..Len(hooks)) \X Events
    /\ \A p \in lastSent : p[2] \in Events

\* There is no process.
HooksInit ==
    /\ hooks = <<>> /\ lastSent = {} /\ tried = {}
    /\ firing = [f \in Firers |-> NoEvent]
    /\ at = [f \in Firers |-> 1]
    /\ child = [f \in Firers |-> "none"]

\* HardFailureHooks::new.
HooksNew(configured) ==
    /\ hooks' = configured
    /\ UNCHANGED <<lastSent, firing, at, child, tried>>

\* The process ends, with all that its tasks were at.
HooksLost ==
    /\ hooks' = <<>> /\ lastSent' = {} /\ tried' = {}
    /\ firing' = [f \in Firers |-> NoEvent]
    /\ at' = [f \in Firers |-> 1]
    /\ child' = [f \in Firers |-> "none"]

Idle(f) == firing[f] = NoEvent

\* fire is called.
FireBegins(f, e) ==
    /\ firing' = [firing EXCEPT ![f] = e]
    /\ at' = [at EXCEPT ![f] = 1]
    /\ UNCHANGED <<hooks, lastSent, child, tried>>

\* Mutant of ThrottleKey: one throttle for all the events of a hook.
HookAlone(h, e) == <<h.key, CHOOSE x \in Events : TRUE>>

ThrottleKey(h, e) == <<h.key, e>>

AtHook(f) == firing[f] # NoEvent /\ at[f] <= Len(hooks) /\ child[f] = "none"

Throttled(h, e) == h.throttled /\ ThrottleKey(h, e) \in lastSent

\* A disabled hook (HardFailureHooks::new leaves it out), or throttled() says yes: on to
\* the next.
HookPassed(f) ==
    LET h == hooks[at[f]] IN
    /\ AtHook(f)
    /\ ~h.enabled \/ Throttled(h, firing[f])
    /\ at' = [at EXCEPT ![f] = @ + 1]
    /\ UNCHANGED <<hooks, lastSent, firing, child, tried>>

\* throttled() says no and notes the time, run_hook starts the child.
HookRuns(f) ==
    LET h == hooks[at[f]] IN
    /\ AtHook(f)
    /\ h.enabled /\ ~Throttled(h, firing[f])
    /\ lastSent' = IF h.throttled THEN lastSent \cup {ThrottleKey(h, firing[f])} ELSE lastSent
    /\ tried' = tried \cup {<<at[f], firing[f]>>}
    /\ child' = [child EXCEPT ![f] = "writing"]
    /\ UNCHANGED <<hooks, firing, at>>

\* The child has taken the payload.
HookWrites(f) ==
    /\ child[f] = "writing"
    /\ child' = [child EXCEPT ![f] = "waiting"]
    /\ UNCHANGED <<hooks, lastSent, firing, at, tried>>

\* run_hook is over, with an error or without: fire goes on all the same.
HookOver(f) ==
    /\ child[f] # "none"
    /\ child' = [child EXCEPT ![f] = "none"]
    /\ at' = [at EXCEPT ![f] = @ + 1]
    /\ UNCHANGED <<hooks, lastSent, firing, tried>>

\* The child cannot be spawned or written to, or exits.
ChildExits(f) == HookOver(f)

\* Mutant of HookTimesOut: run_hook waits as long as the child runs.
HookWaits(f) == FALSE

\* timeout_ms is over: the child is killed.
HookTimesOut(f) == child[f] = "waiting" /\ HookOver(f)

\* fire returns.
FireReturns(f) ==
    /\ firing[f] # NoEvent /\ at[f] > Len(hooks)
    /\ firing' = [firing EXCEPT ![f] = NoEvent]
    /\ at' = [at EXCEPT ![f] = 1]
    /\ UNCHANGED <<hooks, lastSent, child, tried>>

\* throttle_ms is over.
WindowPasses(p) ==
    /\ p \in lastSent
    /\ lastSent' = lastSent \ {p}
    /\ UNCHANGED <<hooks, firing, at, child, tried>>

\* What fire does of itself, whatever the children do.
FireStep(f) == HookPassed(f) \/ HookRuns(f) \/ HookTimesOut(f)
=============================================================================
