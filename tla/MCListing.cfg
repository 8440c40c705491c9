SPECIFICATION Spec
CHECK_DEADLOCK FALSE
CONSTANTS
    p1 = p1
    p2 = p2
    N = 2
    Canonical = {1}
    LIMIT = 2
    Uploaded = {"other"}
    Pass = {p1, p2}
    MaxChanges = 1
    Listed = {1}
    Impersonator = {1}
    MaxFaults = 1
    MaxOrders = 1
    MaxSpent = 2
INVARIANTS
    TypeOK
    MatchShowsItsFields
    UnreviewedFollowsFlags
PROPERTIES
    DisplayNeverLost
    VerdictSettles
