SPECIFICATION Spec
CONSTANTS
    confirmations = confirmations
    trades = trades
    Global = {confirmations}
    PerToken = {trades}
    GLOBAL_CONFIRMATIONS = confirmations
    MAX_SUBSCRIPTIONS_PER_SOCKET = 200
    Pages = {trades}
    MaxSockets = 5
    MaxEvents = 3
    MaxBreaks = 2
    MaxFaults = 1
    MaxToggles = 2
    MaxSpent = 5
INVARIANTS
    TypeOK
    GapsAreHealed
PROPERTIES
    WatermarkNeverGoesBack
    MembershipConverges
CHECK_DEADLOCK FALSE
