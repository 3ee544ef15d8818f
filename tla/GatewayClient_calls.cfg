\* Two calls, a channel of one, a backoff that doubles once, every secret and
\* stored token.  No symmetry, for liveness.
SPECIFICATION LiveSpec
CONSTANTS
    Calls = {c1, c2}
    CmdCap = 1
    RetryBase = 1
    RetryMax = 2
INVARIANTS
    WaitingIsHeld
    LiveIsConnected
    RefusalIsPaced
PROPERTIES
    KeepsContract
    PairingCompletes
    CallsReturn
CHECK_DEADLOCK FALSE
