\* No store; two servers with three messages above the floor share a queue of one.
SPECIFICATION LiveSpec
CONSTANTS
    s1 = s1
    m2 = m2
    Servers = {s1, s2}
    Ids = {m1, m2}
    WakeSinks = {w1}
    DbSink = NoSink
    NoSink = NoSink
    DisabledSinks = {}
    RemovedSinks = {}
    DedupeWindow = 2
    QueueCap = 1
    BelowFloor <- OneBelowFloor
    MaxStarts = 1
    NoId = NoId
    NoMsg = NoMsg
PROPERTIES
    DrainEnds
    EverythingIsProcessed
CHECK_DEADLOCK FALSE
