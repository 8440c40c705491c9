SPECIFICATION Spec
CHECK_DEADLOCK FALSE
CONSTANTS
    p1 = p1
    p2 = p2
    N = 5
    Canonical = {1}
    LIMIT = 1
    Uploaded = {"committed"}
    Pass = {p1}
    MaxChanges = 0
    Listed = {}
    Impersonator = {}
    MaxFaults = 0
    MaxOrders = 1
    MaxSpent = 1
INVARIANTS
    DueRowsAreFound
