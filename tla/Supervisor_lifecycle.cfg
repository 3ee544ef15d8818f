\* Two servers on one host, three ways to type them and a bad URL, four files to start
\* from, a hook that runs and a disabled one, a task that reports beside the supervisor,
\* two tasks that fail, and setups whose clients go away.  Any number of restarts.
SPECIFICATION LiveSpec
CONSTANTS
    NoUrl = NoUrl
    Blank = Blank
    NoEvent = NoEvent
    Raws <- MCRaws
    Words <- MCWords
    Written <- MCWritten
    Firers <- MCFirers
    Events <- MCEvents
    Spaces <- MCSpaces
    Generated <- MCGenerated
    Requests <- MCRequests
    Fragile <- MCFragile
    Noisy <- MCNoisy
INVARIANTS
    ReportReachesHooks
    OutboundFollowsRequest
PROPERTIES
    SetupKeepsLoadable
    SetupAddsOne
    StopEnds
    FailureEnds
