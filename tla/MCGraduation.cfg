SPECIFICATION Spec
CONSTANTS
    lp = lp
    stray = stray
    creator = creator
    none = none
    Position = {lp, stray}
    LPCreator = {creator}
    NoCreator = none
    Asset = {"token", "weth"}
    BPS = 4
    creatorLpShareBps = 2
    FeeInput = {1, 3}
    MaxAccruals = 2
    MIGRATION_SLIPPAGE_BPS = 1
    TOLERANCE_TICKS = 3
    MAX_ARB_ITERATIONS = 2
    LP_TOKEN_TRANCHE = 36
    LiquidityUnit = 4
    GRADUATION_ETH = 10
    CALLER_REWARD = 1
    GRADUATION_FEE = 1
    Price = {2, 4, 6, 8, 9, 10, 12, 14}
    Depth = {0, 1, 2}
    Donation = {1, 3}
INVARIANTS
    TypeOK
    MintMeetsFloors
    ArbNeverRunsOut
    NothingStranded
    CreatorGetsShare
PROPERTIES
    MigrationAtomic
    NeverFrozen
