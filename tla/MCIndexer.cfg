SPECIFICATION Spec
CONSTANTS
    alice = alice
    bob = bob
    Trader = {alice, bob}
    CurveSupply = 2
    Tranche = 2
    PoolPrice = {2, 4}
    MaxTxs = 4
    Interval = {1, 3}
    MaxSetbacks = 1
    MaxFlights = 2
SYMMETRY Symmetry
INVARIANTS
    TypeOK
    LedgersFollowChain
    CandlesAreTrades
    SampleNeverForgotten
CHECK_DEADLOCK FALSE
