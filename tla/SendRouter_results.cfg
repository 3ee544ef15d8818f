\* A request beside two setups, two servers, and a daemon that starts and ends at
\* will.
SPECIFICATION Spec
CONSTANTS
    Servers = {s1, s2}
    Setups = {c1, c2}
SYMMETRY Symmetry
INVARIANTS
    OneManagerPerServer
    LiveSetupIsServed
    OkMeansTaken
    TakenIsReported
    RefusedMeansUnsent
PROPERTIES
    KeepsRegistry
    UnknownMeansUnloaded
CHECK_DEADLOCK FALSE
