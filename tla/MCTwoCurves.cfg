SPECIFICATION Spec
CONSTANTS
    c1 = c1
    c2 = c2
    k1 = k1
    k2 = k2
    safe = safe
    hostile = hostile
    Curve = {c1, c2}
    Creator = {k1, k2}
    RejectingCreator = {k2}
    Treasury = {safe, hostile}
    RejectingTreasury = {hostile}
    VIRTUAL_ETH_0 = 1
    VIRTUAL_TOKEN_0 = 4
    CURVE_SUPPLY = 3
    LP_TOKEN_TRANCHE = 1
    GRADUATION_ETH = 3
    BPS_DENOMINATOR = 4
    MAX_TRADE_FEE_BPS = 2
    maxCreationFee = 1
    maxGraduationFee = 1
    maxCallerReward = 1
    BpsInput = {1}
    FlatFeeInput = {0}
    EarlyBuyInput = {1}
    CapInput = {4}
    InitialEth = 5
SYMMETRY Symmetry
INVARIANTS
    LedgersExact
PROPERTIES
    ImplementsFundingRound
