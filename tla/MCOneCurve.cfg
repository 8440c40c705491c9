SPECIFICATION Spec
CONSTANTS
    c1 = c1
    c2 = c2
    k1 = k1
    k2 = k2
    safe = safe
    hostile = hostile
    Curve = {c1}
    Creator = {k1}
    RejectingCreator = {}
    Treasury = {safe}
    RejectingTreasury = {}
    VIRTUAL_ETH_0 = 2
    VIRTUAL_TOKEN_0 = 12
    CURVE_SUPPLY = 9
    LP_TOKEN_TRANCHE = 3
    GRADUATION_ETH = 6
    BPS_DENOMINATOR = 4
    MAX_TRADE_FEE_BPS = 2
    maxCreationFee = 1
    maxGraduationFee = 2
    maxCallerReward = 2
    BpsInput = {1}
    FlatFeeInput = {1}
    EarlyBuyInput = {4}
    CapInput = {6}
    InitialEth = 10
INVARIANTS
    TypeOK
    Inv
    SellNeverBlocked
    BuySplitExact
    EthConserved
PROPERTIES
    KNeverDecreases
    LockHolds
