---------------------------- MODULE CurveFactory ----------------------------
(***************************************************************************)
(* contracts/src/CurveFactory.sol: the owner's configuration and the ETH   *)
(* all live curves hold together (globalCurveEth).  A curve copies the     *)
(* economic part of the configuration when it is deployed; the treasury,   *)
(* the pause flags and the two caps are read live on every call.           *)
(*                                                                         *)
(* The one-time wiring (router, migrator, creatorVault, lpFeeVault) is     *)
(* taken as done: createToken refuses to run before it.                    *)
(***************************************************************************)
EXTENDS Integers

CONSTANTS
    GRADUATION_ETH,        \* immutable threshold every curve is launched with
    BPS_DENOMINATOR,       \* 10_000 in the code
    MAX_TRADE_FEE_BPS,     \* 200 in the code
    maxCreationFee, maxGraduationFee, maxCallerReward,   \* immutable ceilings
    Treasury,              \* addresses the owner may point the treasury at
    RejectingTreasury,     \* those of them that revert when they are paid
    BpsInput, FlatFeeInput, EarlyBuyInput, CapInput      \* values the owner tries

(* The checks of the factory's constructor, and the shape of its inputs.   *)
(* `maxCallerReward + maxGraduationFee < GRADUATION_ETH` is the            *)
(* GraduationUnfundable check.                                             *)
ASSUME FactoryAssumption ==
    /\ GRADUATION_ETH \in Nat \ {0}
    /\ BPS_DENOMINATOR \in Nat \ {0}
    /\ MAX_TRADE_FEE_BPS \in Nat
    /\ 2 * MAX_TRADE_FEE_BPS <= BPS_DENOMINATOR
    /\ maxCreationFee \in Nat /\ maxGraduationFee \in Nat /\ maxCallerReward \in Nat
    /\ maxCallerReward + maxGraduationFee < GRADUATION_ETH
    /\ RejectingTreasury \subseteq Treasury
    /\ BpsInput \subseteq Nat /\ FlatFeeInput \subseteq Nat
    /\ EarlyBuyInput \subseteq Nat /\ CapInput \subseteq Nat

VARIABLES
    config,           \* CurveFactory.FactoryConfig
    globalCurveEth    \* sum of all curves' real ETH, kept by recordEthDelta

factoryVars == <<config, globalCurveEth>>

FactoryConfig ==
    [ treasury : Treasury,
      tradeFeeBps : Nat, creatorFeeBps : Nat,
      creationFee : Nat, graduationFee : Nat, callerReward : Nat,
      earlyWindow : BOOLEAN,    \* earlyWindowSeconds # 0
      maxEarlyBuyWei : Nat,
      pauseCreates : BOOLEAN, pauseBuys : BOOLEAN,
      perTokenEthCap : Nat, globalEthCap : Nat ]

(* What the constructor and the setters keep true of the configuration.  *)
FeesWithinCeilings(cfg) ==
    /\ cfg.tradeFeeBps + cfg.creatorFeeBps <= MAX_TRADE_FEE_BPS
    /\ cfg.creationFee <= maxCreationFee
    /\ cfg.graduationFee <= maxGraduationFee
    /\ cfg.callerReward <= maxCallerReward

CapsReachGraduation(perToken, global) ==
    perToken >= GRADUATION_ETH /\ global >= GRADUATION_ETH

AdmissibleConfig(cfg) ==
    FeesWithinCeilings(cfg) /\ CapsReachGraduation(cfg.perTokenEthCap, cfg.globalEthCap)

(* The deployer chooses any values the constructor accepts, from the same  *)
(* inputs as the owner; nothing is paused.                                 *)
FactoryInit ==
    /\ globalCurveEth = 0
    /\ config \in
         [ treasury : Treasury,
           tradeFeeBps : BpsInput, creatorFeeBps : BpsInput,
           creationFee : FlatFeeInput, graduationFee : FlatFeeInput,
           callerReward : FlatFeeInput,
           earlyWindow : BOOLEAN, maxEarlyBuyWei : EarlyBuyInput,
           pauseCreates : {FALSE}, pauseBuys : {FALSE},
           perTokenEthCap : CapInput, globalEthCap : CapInput ]
    /\ AdmissibleConfig(config)

-----------------------------------------------------------------------------
(* recordEthDelta: a positive delta is capped, a negative one floors at    *)
(* zero and never reverts.                                                 *)
WithinGlobalCap(delta) == delta > 0 => globalCurveEth + delta <= config.globalEthCap
EthRecorded(delta)     == globalCurveEth + delta

(* Mutation: ETH that leaves a curve is not recorded. *)
EthNeverReleased(delta) == globalCurveEth

EthReleased(delta)     == IF delta >= globalCurveEth THEN 0 ELSE globalCurveEth - delta

TreasuryAccepts == config.treasury \notin RejectingTreasury

-----------------------------------------------------------------------------
(* The owner's setters. *)
SetPauseCreates(paused) == config' = [config EXCEPT !.pauseCreates = paused]
SetPauseBuys(paused)    == config' = [config EXCEPT !.pauseBuys = paused]
SetTreasury(t)          == config' = [config EXCEPT !.treasury = t]

SetTradeFeeBps(bps) ==
    /\ bps + config.creatorFeeBps <= MAX_TRADE_FEE_BPS
    /\ config' = [config EXCEPT !.tradeFeeBps = bps]

(* Mutation: the setter looks at its own leg only. *)
SetCreatorFeeBpsAlone(bps) ==
    /\ bps <= MAX_TRADE_FEE_BPS
    /\ config' = [config EXCEPT !.creatorFeeBps = bps]

SetCreatorFeeBps(bps) ==
    /\ config.tradeFeeBps + bps <= MAX_TRADE_FEE_BPS
    /\ config' = [config EXCEPT !.creatorFeeBps = bps]

SetCreationFee(fee) ==
    /\ fee <= maxCreationFee
    /\ config' = [config EXCEPT !.creationFee = fee]

SetGraduationFee(fee) ==
    /\ fee <= maxGraduationFee
    /\ config' = [config EXCEPT !.graduationFee = fee]

(* Mutation: the ceiling is not checked. *)
SetCallerRewardUnchecked(reward) == config' = [config EXCEPT !.callerReward = reward]

SetCallerReward(reward) ==
    /\ reward <= maxCallerReward
    /\ config' = [config EXCEPT !.callerReward = reward]

SetAntiSniper(window, maxEarly) ==
    config' = [config EXCEPT !.earlyWindow = window, !.maxEarlyBuyWei = maxEarly]

SetCaps(perToken, global) ==
    /\ CapsReachGraduation(perToken, global)
    /\ config' = [config EXCEPT !.perTokenEthCap = perToken, !.globalEthCap = global]

OwnerSets ==
    \/ \E paused \in BOOLEAN : SetPauseCreates(paused)
    \/ \E paused \in BOOLEAN : SetPauseBuys(paused)
    \/ \E t \in Treasury : SetTreasury(t)
    \/ \E bps \in BpsInput : SetTradeFeeBps(bps)
    \/ \E bps \in BpsInput : SetCreatorFeeBps(bps)
    \/ \E fee \in FlatFeeInput : SetCreationFee(fee)
    \/ \E fee \in FlatFeeInput : SetGraduationFee(fee)
    \/ \E reward \in FlatFeeInput : SetCallerReward(reward)
    \/ \E window \in BOOLEAN, maxEarly \in EarlyBuyInput : SetAntiSniper(window, maxEarly)
    \/ \E perToken, global \in CapInput : SetCaps(perToken, global)

=============================================================================
