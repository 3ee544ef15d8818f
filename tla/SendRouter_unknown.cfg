\* Two servers and a setup beside the request.
SPECIFICATION Spec
CONSTANTS
    Servers = {s1, s2}
    Setups = {c1}
INVARIANTS
    UnknownMeansUnconfigured
CHECK_DEADLOCK FALSE
