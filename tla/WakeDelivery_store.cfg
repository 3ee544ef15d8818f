\* A db sink, two wake sinks, a disabled and a removed one; two messages, a window
\* and a queue of one, one restart.
SPECIFICATION Spec
CONSTANTS
    s1 = s1
    m2 = m2
    Servers = {s1}
    Ids = {m1, m2}
    WakeSinks = {w1, w2}
    DbSink = db
    NoSink = NoSink
    DisabledSinks = {off}
    RemovedSinks = {old}
    DedupeWindow = 1
    QueueCap = 1
    BelowFloor <- NoneBelowFloor
    MaxStarts = 2
    NoId = NoId
    NoMsg = NoMsg
SYMMETRY Symmetry
INVARIANTS
    TypeOK
    RecordedIsSettled
    PendingIsInFlight
    OneEnvelopePerMessage
    OrphansAreBounded
    AuditMatchesWakes
    TargetsMatchConfig
PROPERTIES
    KeepsPromise
CHECK_DEADLOCK FALSE
