\* Two callers, a channel of one; a threshold of two, jitter of half, a
\* cooldown that doubles into its cap.  No symmetry, for liveness.
SPECIFICATION LiveSpec
CONSTANTS
    FailureWindow = 1
    FailureThreshold = 2
    InitialCooldown = 1
    MaxCooldown = 2
    JitterPct = 50
    FailureCap = 2
    Sends = {x1, x2}
    CmdCap = 1
    RetryBase = 1
    RetryMax = 1
INVARIANTS
    StormGuarded
    WaitingIsHeld
    LiveIsConnected
PROPERTIES
    CooldownHonoured
    KeepsContract
    SendsEnd
    ComesBack
CHECK_DEADLOCK FALSE
