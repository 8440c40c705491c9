SPECIFICATION Spec
CONSTANTS
    c1 = c1
    c2 = c2
    k1 = k1
    k2 = k2
    safe = safe
    hostile = hostile
    Curve = {c1}
    Creator = {k1}
    RejectingCreator = {}
    Treasury = {safe}
    RejectingTreasury = {}
    VIRTUAL_ETH_0 = 1
    VIRTUAL_TOKEN_0 = 4
    CURVE_SUPPLY = 3
    LP_TOKEN_TRANCHE = 1
    GRADUATION_ETH = 3
    BPS_DENOMINATOR = 2
    MAX_TRADE_FEE_BPS = 1
    maxCreationFee = 1
    maxGraduationFee = 1
    maxCallerReward = 1
    BpsInput = {0, 1}
    FlatFeeInput = {0, 1, 2}
    EarlyBuyInput = {1}
    CapInput = {2, 4}
    InitialEth = 4
INVARIANTS
    FeeCeiling
    GraduationFundable
    CurvesAreSound
