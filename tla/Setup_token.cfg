\* One setup of one server whose session has expired.
SPECIFICATION Spec
CONSTANTS
    Servers = {s1}
    Setups = {c1}
INVARIANTS
    SetupRefreshesToken
CHECK_DEADLOCK FALSE
