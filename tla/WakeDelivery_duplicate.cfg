\* One message, a db sink and a wake sink, one restart.
SPECIFICATION Spec
CONSTANTS
    s1 = s1
    m2 = m2
    Servers = {s1}
    Ids = {m1}
    WakeSinks = {w1}
    DbSink = db
    NoSink = NoSink
    DisabledSinks = {off}
    RemovedSinks = {old}
    DedupeWindow = 1
    QueueCap = 1
    BelowFloor <- NoneBelowFloor
    MaxStarts = 2
    NoId = NoId
    NoMsg = NoMsg
INVARIANTS
    OneEventPerMessage
CHECK_DEADLOCK FALSE
