SPECIFICATION Spec
CONSTANTS
    alice = alice
    bob = bob
    Trader = {alice, bob}
    CurveSupply = 2
    Tranche = 2
    PoolPrice = {2, 4}
    MaxTxs = 4
    Interval = {1, 3}
    MaxSetbacks = 1
    MaxFlights = 1
SYMMETRY Symmetry
INVARIANTS
    RebuildIsIncremental
CHECK_DEADLOCK FALSE
