\* No sends: the manager and a setup at the session file.
SPECIFICATION Spec
CONSTANTS
    FailureWindow = 1
    FailureThreshold = 2
    InitialCooldown = 2
    MaxCooldown = 3
    JitterPct = 50
    FailureCap = 4
    Sends = {}
    CmdCap = 1
    RetryBase = 1
    RetryMax = 2
PROPERTIES
    MigrationStays
CHECK_DEADLOCK FALSE
