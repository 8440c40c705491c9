---------------------------- MODULE BondingCurve ----------------------------
(***************************************************************************)
(* contracts/src/BondingCurve.sol.  A deployed curve is a record: its      *)
(* storage, the ETH and tokens its address holds, and the parameters it    *)
(* copied from the factory at birth.  Each external function is an action  *)
(* on one curve; the factory calls it makes are part of the action.  A     *)
(* call that reverts changes nothing and is therefore no step.             *)
(*                                                                         *)
(* `held` is what every address but the curve owns of the token.  A trader *)
(* can sell any part of it; who owns what is the token contract's business *)
(* and the curve cannot tell.                                              *)
(***************************************************************************)
EXTENDS CurveMath, CurveFactory, CreatorVault, FiniteSets

CONSTANTS
    Curve,                \* CREATE2 addresses curves may be deployed at
    VIRTUAL_ETH_0, VIRTUAL_TOKEN_0, CURVE_SUPPLY, LP_TOKEN_TRANCHE

(* Constructor of CurveFactory: non-zero virtual reserves. *)
ASSUME CurveAssumption ==
    /\ VIRTUAL_ETH_0 \in Nat \ {0} /\ VIRTUAL_TOKEN_0 \in Nat \ {0}
    /\ CURVE_SUPPLY \in Nat /\ LP_TOKEN_TRANCHE \in Nat

VARIABLES
    curve,          \* deployed curves: a function on the addresses in use
    wallet,         \* ETH of everybody outside the system (traders, keepers)
    treasuryEth,    \* ETH the treasury addresses have received
    migratorEth,    \* ETH handed to V3Migrator.migrate
    migratorTokens  \* tokens handed to it, per curve

curveVars == <<curve, wallet, treasuryEth, migratorEth, migratorTokens>>

TOTAL_SUPPLY == CURVE_SUPPLY + LP_TOKEN_TRANCHE

Phase == {"Trading", "ReadyToGraduate", "Graduated"}

CurveState ==
    [ phase : Phase,
      virtualEthReserves : Nat, virtualTokenReserves : Nat,
      realEthReserves : Nat, realTokenReserves : Nat,
      accruedFees : Nat, accruedCreatorFees : Nat,
      eth : Nat, tokens : Nat, held : Nat,
      inEarlyWindow : BOOLEAN,      \* block.timestamp < EARLY_WINDOW_END
      creator : Creator, TRADE_FEE_BPS : Nat, CREATOR_FEE_BPS : Nat,
      GRADUATION_FEE : Nat, CALLER_REWARD : Nat, MAX_EARLY_BUY : Nat ]

isCurve == DOMAIN curve

(* The constructor, reading the parameters the factory staged.  The whole  *)
(* token supply was minted to this address before.                         *)
NewCurve(creator) ==
    [ phase |-> "Trading",
      virtualEthReserves |-> VIRTUAL_ETH_0, virtualTokenReserves |-> VIRTUAL_TOKEN_0,
      realEthReserves |-> 0, realTokenReserves |-> CURVE_SUPPLY,
      accruedFees |-> 0, accruedCreatorFees |-> 0,
      eth |-> 0, tokens |-> TOTAL_SUPPLY, held |-> 0,
      inEarlyWindow |-> config.earlyWindow, creator |-> creator,
      TRADE_FEE_BPS |-> config.tradeFeeBps, CREATOR_FEE_BPS |-> config.creatorFeeBps,
      GRADUATION_FEE |-> config.graduationFee, CALLER_REWARD |-> config.callerReward,
      MAX_EARLY_BUY |-> config.maxEarlyBuyWei ]

BondingCurveInit ==
    /\ curve = << >>
    /\ treasuryEth = 0 /\ migratorEth = 0
    /\ migratorTokens = [c \in Curve |-> 0]

-----------------------------------------------------------------------------
(* Fees *)

BpsOf(amount, bps) == (amount * bps) \div BPS_DENOMINATOR

(* What a buy of grossIn is split into: net (to the reserve), the treasury *)
(* and creator legs, the part of grossIn accepted, and the refund.  A buy  *)
(* that would cross GRADUATION_ETH is clamped to land exactly on it.       *)
PlainSplit(c, grossIn) ==
    LET fee        == BpsOf(grossIn, c.TRADE_FEE_BPS)
        creatorFee == BpsOf(grossIn, c.CREATOR_FEE_BPS)
    IN  [ net |-> grossIn - fee - creatorFee, fee |-> fee, creatorFee |-> creatorFee,
          acceptedEthGross |-> grossIn, refund |-> 0 ]

(* Mutation: both legs are recomputed from the accepted amount instead of  *)
(* splitting what the clamp leaves.                                        *)
ClampedSplitTwoFloors(c, grossIn) ==
    LET net        == GRADUATION_ETH - c.realEthReserves
        totBps     == c.TRADE_FEE_BPS + c.CREATOR_FEE_BPS
        accepted   == Min2(CeilDiv(net * BPS_DENOMINATOR, BPS_DENOMINATOR - totBps), grossIn)
    IN  [ net |-> net, fee |-> BpsOf(accepted, c.TRADE_FEE_BPS),
          creatorFee |-> BpsOf(accepted, c.CREATOR_FEE_BPS),
          acceptedEthGross |-> accepted, refund |-> grossIn - accepted ]

ClampedSplit(c, grossIn) ==
    LET net        == GRADUATION_ETH - c.realEthReserves
        totBps     == c.TRADE_FEE_BPS + c.CREATOR_FEE_BPS
        accepted   == Min2(CeilDiv(net * BPS_DENOMINATOR, BPS_DENOMINATOR - totBps), grossIn)
        totalFee   == accepted - net
        creatorFee == IF totBps = 0 THEN 0 ELSE (totalFee * c.CREATOR_FEE_BPS) \div totBps
    IN  [ net |-> net, fee |-> totalFee - creatorFee, creatorFee |-> creatorFee,
          acceptedEthGross |-> accepted, refund |-> grossIn - accepted ]

(* Mutation: no clamp at the threshold. *)
BuySplitUnclamped(c, grossIn) == PlainSplit(c, grossIn)

BuySplit(c, grossIn) ==
    IF PlainSplit(c, grossIn).net > GRADUATION_ETH - c.realEthReserves
    THEN ClampedSplit(c, grossIn)
    ELSE PlainSplit(c, grossIn)

(* Tokens a buy of net pays out, capped to the sellable inventory. *)
TokensOut(c, net) ==
    Min2(BuyTokensOut(c.virtualEthReserves, c.virtualTokenReserves, net), c.realTokenReserves)

(* What a sale of tokenAmount takes out of the reserve, and how it is split. *)
SellSplit(c, tokenAmount) ==
    LET gross      == SellEthOut(c.virtualEthReserves, c.virtualTokenReserves, tokenAmount)
        fee        == BpsOf(gross, c.TRADE_FEE_BPS)
        creatorFee == BpsOf(gross, c.CREATOR_FEE_BPS)
    IN  [ ethOutGross |-> gross, fee |-> fee, creatorFee |-> creatorFee,
          ethOut |-> gross - fee - creatorFee ]

-----------------------------------------------------------------------------
(* State after a trade.  The ETH that stays is what was accepted. *)

AfterBuy(c, grossIn) ==
    LET q == BuySplit(c, grossIn)
        out == TokensOut(c, q.net)
        newRealEth == c.realEthReserves + q.net
    IN  [ c EXCEPT
            !.virtualEthReserves = @ + q.net, !.virtualTokenReserves = @ - out,
            !.realEthReserves = newRealEth, !.realTokenReserves = @ - out,
            !.accruedFees = @ + q.fee, !.accruedCreatorFees = @ + q.creatorFee,
            !.phase = IF newRealEth = GRADUATION_ETH THEN "ReadyToGraduate" ELSE @,
            !.eth = @ + grossIn - q.refund, !.tokens = @ - out, !.held = @ + out ]

(* Mutation: the creator leg is accrued and paid to the seller too. *)
AfterSellCreatorLegTwice(c, tokenAmount) ==
    LET s == SellSplit(c, tokenAmount)
    IN  [ c EXCEPT
            !.virtualEthReserves = @ - s.ethOutGross, !.virtualTokenReserves = @ + tokenAmount,
            !.realEthReserves = @ - s.ethOutGross, !.realTokenReserves = @ + tokenAmount,
            !.accruedFees = @ + s.fee, !.accruedCreatorFees = @ + s.creatorFee,
            !.eth = @ - s.ethOut - s.creatorFee,
            !.tokens = @ + tokenAmount, !.held = @ - tokenAmount ]

AfterSell(c, tokenAmount) ==
    LET s == SellSplit(c, tokenAmount)
    IN  [ c EXCEPT
            !.virtualEthReserves = @ - s.ethOutGross, !.virtualTokenReserves = @ + tokenAmount,
            !.realEthReserves = @ - s.ethOutGross, !.realTokenReserves = @ + tokenAmount,
            !.accruedFees = @ + s.fee, !.accruedCreatorFees = @ + s.creatorFee,
            !.eth = @ - s.ethOut, !.tokens = @ + tokenAmount, !.held = @ - tokenAmount ]

AfterGraduate(c) ==
    [ c EXCEPT !.phase = "Graduated", !.realEthReserves = 0, !.realTokenReserves = 0,
               !.eth = c.accruedFees + c.accruedCreatorFees, !.tokens = 0 ]

(* Mutation: the escrow is paid out but not zeroed. *)
AfterSweepFeesNotZeroed(c) == [c EXCEPT !.eth = @ - c.accruedFees]

AfterSweepFees(c)        == [c EXCEPT !.accruedFees = 0, !.eth = @ - c.accruedFees]
AfterSweepCreatorFees(c) == [c EXCEPT !.accruedCreatorFees = 0, !.eth = @ - c.accruedCreatorFees]

AfterEthDonation(c, amount)   == [c EXCEPT !.eth = @ + amount]
AfterTokenDonation(c, amount) == [c EXCEPT !.tokens = @ + amount, !.held = @ - amount]

(* buy's checks up to the slippage floor.  GRADUATION_ETH bounds each of   *)
(* the subtractions of the clamp; acceptedEthGross <= grossIn is F-1.      *)
CanBuy(c, grossIn) ==
    LET q == BuySplit(c, grossIn)
    IN  /\ c.phase = "Trading"
        /\ grossIn > 0
        /\ ~(c.inEarlyWindow /\ grossIn > c.MAX_EARLY_BUY)
        /\ c.realEthReserves + q.net <= config.perTokenEthCap
        /\ WithinGlobalCap(q.net)

(* The checked subtractions of sell and the payout it must be able to make. *)
SellCovered(c, tokenAmount) ==
    LET s == SellSplit(c, tokenAmount)
    IN  s.ethOutGross <= c.realEthReserves /\ s.ethOut <= c.eth

-----------------------------------------------------------------------------
(* Calls on a deployed curve *)

(* The Router forwards msg.value; refund and tokens go back outside. *)
CurveBuy(a, grossIn) ==
    /\ CanBuy(curve[a], grossIn)
    /\ curve' = [curve EXCEPT ![a] = AfterBuy(@, grossIn)]
    /\ globalCurveEth' = EthRecorded(BuySplit(curve[a], grossIn).net)
    /\ wallet' = wallet - grossIn + BuySplit(curve[a], grossIn).refund
    /\ UNCHANGED <<config, vaultVars, treasuryEth, migratorEth, migratorTokens>>

(* Mutation: sell stays open until the curve is graduated. *)
CurveSellUntilGraduated(a, tokenAmount) ==
    /\ curve[a].phase # "Graduated"
    /\ tokenAmount > 0
    /\ SellCovered(curve[a], tokenAmount)
    /\ curve' = [curve EXCEPT ![a] = AfterSell(@, tokenAmount)]
    /\ globalCurveEth' = EthReleased(SellSplit(curve[a], tokenAmount).ethOutGross)
    /\ wallet' = wallet + SellSplit(curve[a], tokenAmount).ethOut
    /\ UNCHANGED <<config, vaultVars, treasuryEth, migratorEth, migratorTokens>>

(* sell reads no pause flag and calls neither treasury nor creator. *)
CurveSell(a, tokenAmount) ==
    /\ curve[a].phase = "Trading"
    /\ tokenAmount > 0
    /\ SellCovered(curve[a], tokenAmount)
    /\ curve' = [curve EXCEPT ![a] = AfterSell(@, tokenAmount)]
    /\ globalCurveEth' = EthReleased(SellSplit(curve[a], tokenAmount).ethOutGross)
    /\ wallet' = wallet + SellSplit(curve[a], tokenAmount).ethOut
    /\ UNCHANGED <<config, vaultVars, treasuryEth, migratorEth, migratorTokens>>

(* Nothing accrued means nothing is sent, so even a treasury that rejects  *)
(* ETH lets the call succeed.                                              *)
SweepFees(a) ==
    /\ curve[a].accruedFees # 0 => TreasuryAccepts
    /\ curve' = [curve EXCEPT ![a] = AfterSweepFees(@)]
    /\ treasuryEth' = treasuryEth + curve[a].accruedFees
    /\ UNCHANGED <<factoryVars, vaultVars, wallet, migratorEth, migratorTokens>>

SweepCreatorFees(a) ==
    /\ curve' = [curve EXCEPT ![a] = AfterSweepCreatorFees(@)]
    /\ Deposit(curve[a].creator, curve[a].accruedCreatorFees)
    /\ UNCHANGED <<factoryVars, wallet, treasuryEth, migratorEth, migratorTokens>>

(* Mutation: the creator's escrow is handed to the migrator as well. *)
EthForMigratorOneEscrow(c) == c.eth - c.CALLER_REWARD - c.accruedFees

(* What migrate receives: everything but the reward and the two escrows. *)
EthForMigrator(c) == c.eth - c.CALLER_REWARD - c.accruedFees - c.accruedCreatorFees

(* graduate, for a migrate call that succeeds.  A caller that rejects the  *)
(* reward, or a migrate that reverts, reverts it all and leaves the curve  *)
(* ReadyToGraduate.  The migrator cannot fund the mint from less than its  *)
(* own fee.                                                                *)
Graduate(a) ==
    LET c == curve[a] IN
    /\ c.phase = "ReadyToGraduate"
    /\ EthForMigrator(c) > c.GRADUATION_FEE
    /\ curve' = [curve EXCEPT ![a] = AfterGraduate(@)]
    /\ globalCurveEth' = EthReleased(c.realEthReserves)
    /\ wallet' = wallet + c.CALLER_REWARD
    /\ migratorEth' = migratorEth + EthForMigrator(c)
    /\ migratorTokens' = [migratorTokens EXCEPT ![a] = @ + c.tokens]
    /\ UNCHANGED <<config, vaultVars, treasuryEth>>

(* receive(): ETH anyone sends, in any phase, credited to no reserve. *)
DonateEth(a, amount) ==
    /\ curve' = [curve EXCEPT ![a] = AfterEthDonation(@, amount)]
    /\ wallet' = wallet - amount
    /\ UNCHANGED <<factoryVars, vaultVars, treasuryEth, migratorEth, migratorTokens>>

(* A plain token transfer to the curve's address. *)
DonateTokens(a, amount) ==
    /\ curve' = [curve EXCEPT ![a] = AfterTokenDonation(@, amount)]
    /\ UNCHANGED <<factoryVars, vaultVars, wallet, treasuryEth, migratorEth, migratorTokens>>

(* block.timestamp reaches EARLY_WINDOW_END. *)
EarlyWindowEnds(a) ==
    /\ curve[a].inEarlyWindow
    /\ curve' = [curve EXCEPT ![a] = [@ EXCEPT !.inEarlyWindow = FALSE]]
    /\ UNCHANGED <<factoryVars, vaultVars, wallet, treasuryEth, migratorEth, migratorTokens>>

-----------------------------------------------------------------------------
(* The inductive invariant of one curve.  The virtual reserves are the     *)
(* real ones shifted by constants; their product never falls below the     *)
(* initial one; circulating tokens are at most what the curve sold.        *)
CurveInvariant(c) ==
    /\ c.TRADE_FEE_BPS + c.CREATOR_FEE_BPS <= MAX_TRADE_FEE_BPS
    /\ c.GRADUATION_FEE <= maxGraduationFee /\ c.CALLER_REWARD <= maxCallerReward
    /\ c.eth >= c.realEthReserves + c.accruedFees + c.accruedCreatorFees
    /\ c.phase = "Trading" => c.realEthReserves < GRADUATION_ETH
    /\ c.phase = "ReadyToGraduate" => c.realEthReserves = GRADUATION_ETH
    /\ c.phase # "Graduated" =>
          /\ c.virtualEthReserves = VIRTUAL_ETH_0 + c.realEthReserves
          /\ c.virtualTokenReserves + CURVE_SUPPLY = VIRTUAL_TOKEN_0 + c.realTokenReserves
          /\ c.virtualEthReserves * c.virtualTokenReserves >= VIRTUAL_ETH_0 * VIRTUAL_TOKEN_0
          /\ c.tokens + c.held = TOTAL_SUPPLY
          /\ c.tokens >= c.realTokenReserves + LP_TOKEN_TRANCHE

=============================================================================
