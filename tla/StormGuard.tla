----------------------------- MODULE StormGuard -----------------------------
(***************************************************************************)
(* The reconnect storm guard of src/src/runtime_store.rs: enough failures  *)
(* in a row within one window put the server on a cooldown, which doubles  *)
(* with every further failure and is cleared only by a live connection.    *)
(*                                                                         *)
(* A storm is the ReconnectStormState of a server.  Absolute times are     *)
(* kept as distances from now: until is next_attempt_at minus now, and the *)
(* age of a failure window is now minus reconnect_failure_window_started_at.*)
(***************************************************************************)
EXTENDS Integers

CONSTANTS
    FailureWindow,      \* storm_guard.failure_window_ms
    FailureThreshold,   \* storm_guard.consecutive_failure_threshold
    InitialCooldown,    \* storm_guard.cooldown_ms
    MaxCooldown,        \* storm_guard.max_cooldown_ms
    JitterPct,          \* retry.jitter_ratio, in percent
    FailureCap          \* u32::MAX, where consecutive_failures saturates

ASSUME StormAssumption ==
    /\ FailureWindow \in Nat /\ FailureThreshold \in Nat
    /\ InitialCooldown \in Nat /\ MaxCooldown \in Nat
    /\ JitterPct \in Nat
    /\ FailureCap \in Nat \ {0} /\ FailureThreshold <= FailureCap

NoCooldown == -1
NoWindow == -1

Storms == [failures : 0..FailureCap,
           cooldown : {NoCooldown} \cup (0..MaxCooldown),
           until : 0..MaxCooldown]

CleanStorm == [failures |-> 0, cooldown |-> NoCooldown, until |-> 0]

Lesser(a, b) == IF a < b THEN a ELSE b

\* What jitter of retry.rs may return: the base, plus or minus the rounded spread,
\* and never less than zero.
Jitter(base) ==
    LET spread == (base * JitterPct + 50) \div 100
    IN  {d \in 0..(base + spread) : d >= base - spread}

\* record_reconnect_failure, the count: outside a cooldown, a failure after the
\* window (or the first one) starts a new window.
StartsWindow(storm, age) ==
    storm.cooldown = NoCooldown /\ (age = NoWindow \/ age > FailureWindow)

CountFailure(storm, age) ==
    LET before == IF StartsWindow(storm, age) THEN 0 ELSE storm.failures
    IN  [storm EXCEPT !.failures = Lesser(before + 1, FailureCap)]

WindowAfterFailure(storm, age) == IF StartsWindow(storm, age) THEN 0 ELSE age

\* record_reconnect_failure, the cooldown before jitter.
BaseCooldown(storm) ==
    Lesser(IF storm.cooldown = NoCooldown THEN InitialCooldown ELSE 2 * storm.cooldown,
           MaxCooldown)

\* Mutant of EffectiveCooldowns: the jitter is applied after the cap.
UncappedCooldowns(storm) == Jitter(BaseCooldown(storm))

EffectiveCooldowns(storm) == {Lesser(d, MaxCooldown) : d \in Jitter(BaseCooldown(storm))}

\* The storms that record_reconnect_failure may leave.
AfterFailure(storm, age) ==
    LET counted == CountFailure(storm, age) IN
    IF counted.failures < FailureThreshold
    THEN {counted}
    ELSE {[failures |-> counted.failures, cooldown |-> c, until |-> c] :
            c \in EffectiveCooldowns(storm)}

\* RuntimeStore::load: a count without cooldown continues in a window that starts
\* now.
LoadWindow(storm) ==
    IF storm.failures > 0 /\ storm.cooldown = NoCooldown THEN 0 ELSE NoWindow

\* Mutant of StormTick: the wait is measured from now at each look at the clock.
FrozenStorm(storm) == storm

\* A unit of time passes.
StormTick(storm) == [storm EXCEPT !.until = IF @ > 0 THEN @ - 1 ELSE 0]
WindowTick(age) == IF age = NoWindow \/ age > FailureWindow THEN age ELSE age + 1
=============================================================================
