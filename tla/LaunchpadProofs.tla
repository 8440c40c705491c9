-------------------------- MODULE LaunchpadProofs ---------------------------
(***************************************************************************)
(* One curve first: the fee split of a buy and of a sale, and that each    *)
(* state change of a curve preserves CurveInvariant.  Then the launchpad:  *)
(* Inv is an invariant for every number of curves, every amount of ETH and *)
(* every admissible value of the other constants, and with it the          *)
(* properties the runs check on small instances.                           *)
(***************************************************************************)
EXTENDS Launchpad, ArithmeticProofs

USE DEF Phase

(* A bps share of an amount is a part of it. *)
LEMMA BpsOfBounds ==
    ASSUME NEW amount \in Nat, NEW bps \in Nat
    PROVE  /\ BpsOf(amount, bps) \in Nat
           /\ BPS_DENOMINATOR * BpsOf(amount, bps) <= amount * bps
  BY DivBounds, FactoryAssumption DEF BpsOf

(* The two floored legs together take at most half of an amount.  *)
LEMMA LegsBounded ==
    ASSUME NEW amount \in Nat, NEW t \in Nat, NEW k \in Nat, t + k <= MAX_TRADE_FEE_BPS
    PROVE  2 * (BpsOf(amount, t) + BpsOf(amount, k)) <= amount
  <1> DEFINE x == BpsOf(amount, t)
             y == BpsOf(amount, k)
  <1>1. x \in Nat /\ y \in Nat
        /\ BPS_DENOMINATOR * x <= amount * t /\ BPS_DENOMINATOR * y <= amount * k
    BY BpsOfBounds
  <1> HIDE DEF x, y
  <1>2. BPS_DENOMINATOR \in Nat /\ BPS_DENOMINATOR > 0 /\ 2 * (t + k) <= BPS_DENOMINATOR
    BY FactoryAssumption
  <1>3. BPS_DENOMINATOR * (2 * (x + y)) <= amount * (2 * (t + k))
    BY <1>1, <1>2
  <1>4. amount * (2 * (t + k)) <= BPS_DENOMINATOR * amount
    BY <1>2, ProductMonotone
  <1>5. 2 * (x + y) <= amount
    <2>1. BPS_DENOMINATOR * (2 * (x + y)) <= BPS_DENOMINATOR * amount
      BY <1>1, <1>2, <1>3, <1>4
    <2> QED BY <1>1, <1>2, <2>1, ProductCancel
  <1> QED BY <1>5 DEF x, y

(* What every split of a buy satisfies (F-1 included): the legs add up to  *)
(* what is accepted, which is at most what was sent, and net never passes  *)
(* the remaining capacity.                                                 *)
SplitOf(q, c, grossIn) ==
    /\ q.net \in Nat /\ q.fee \in Nat /\ q.creatorFee \in Nat
    /\ q.acceptedEthGross \in Nat /\ q.refund \in Nat
    /\ q.net > 0
    /\ q.net <= GRADUATION_ETH - c.realEthReserves
    /\ q.net + q.fee + q.creatorFee = q.acceptedEthGross
    /\ q.acceptedEthGross + q.refund = grossIn

LEMMA PlainSplitExact ==
    ASSUME NEW c \in CurveState, CurveInvariant(c), NEW grossIn \in Nat, grossIn > 0,
           PlainSplit(c, grossIn).net <= GRADUATION_ETH - c.realEthReserves
    PROVE  SplitOf(PlainSplit(c, grossIn), c, grossIn)
  <1> DEFINE fee == BpsOf(grossIn, c.TRADE_FEE_BPS)
             creatorFee == BpsOf(grossIn, c.CREATOR_FEE_BPS)
  <1>1. c.TRADE_FEE_BPS \in Nat /\ c.CREATOR_FEE_BPS \in Nat
        /\ c.TRADE_FEE_BPS + c.CREATOR_FEE_BPS <= MAX_TRADE_FEE_BPS
    BY DEF CurveState, CurveInvariant
  <1>2. fee \in Nat /\ creatorFee \in Nat /\ 2 * (fee + creatorFee) <= grossIn
    BY <1>1, BpsOfBounds, LegsBounded
  <1>3. PlainSplit(c, grossIn) =
          [ net |-> grossIn - fee - creatorFee, fee |-> fee, creatorFee |-> creatorFee,
            acceptedEthGross |-> grossIn, refund |-> 0 ]
    BY DEF PlainSplit
  <1> HIDE DEF fee, creatorFee
  <1> QED BY <1>2, <1>3 DEF SplitOf

LEMMA ClampedSplitExact ==
    ASSUME NEW c \in CurveState, CurveInvariant(c), c.phase = "Trading",
           NEW grossIn \in Nat, grossIn > 0,
           PlainSplit(c, grossIn).net > GRADUATION_ETH - c.realEthReserves
    PROVE  SplitOf(ClampedSplit(c, grossIn), c, grossIn)
  <1> DEFINE net        == GRADUATION_ETH - c.realEthReserves
             totBps     == c.TRADE_FEE_BPS + c.CREATOR_FEE_BPS
             ceil       == CeilDiv(net * BPS_DENOMINATOR, BPS_DENOMINATOR - totBps)
             accepted   == Min2(ceil, grossIn)
             totalFee   == accepted - net
             creatorFee == IF totBps = 0 THEN 0
                           ELSE (totalFee * c.CREATOR_FEE_BPS) \div totBps
  <1>1. c.TRADE_FEE_BPS \in Nat /\ c.CREATOR_FEE_BPS \in Nat /\ totBps \in Nat
        /\ c.CREATOR_FEE_BPS <= totBps /\ totBps <= MAX_TRADE_FEE_BPS
    BY DEF CurveState, CurveInvariant
  <1>2. net \in Nat /\ net > 0
    BY FactoryAssumption DEF CurveState, CurveInvariant
  <1>3. BPS_DENOMINATOR \in Nat /\ BPS_DENOMINATOR - totBps \in Nat
        /\ BPS_DENOMINATOR - totBps > 0 /\ BPS_DENOMINATOR - totBps <= BPS_DENOMINATOR
    BY <1>1, FactoryAssumption
  <1>4. net < grossIn
    <2>1. PlainSplit(c, grossIn).net =
            grossIn - BpsOf(grossIn, c.TRADE_FEE_BPS) - BpsOf(grossIn, c.CREATOR_FEE_BPS)
      BY DEF PlainSplit
    <2>2. /\ BpsOf(grossIn, c.TRADE_FEE_BPS) \in Nat
          /\ BpsOf(grossIn, c.CREATOR_FEE_BPS) \in Nat
      BY <1>1, BpsOfBounds
    <2>3. PlainSplit(c, grossIn).net > net
      OBVIOUS
    <2> HIDE DEF net
    <2> QED BY <1>2, <2>1, <2>2, <2>3
  <1>5. ceil \in Nat /\ net <= ceil
    <2>1. net * BPS_DENOMINATOR \in Nat
      BY <1>2, <1>3
    <2>2. ceil \in Nat /\ net * BPS_DENOMINATOR <= (BPS_DENOMINATOR - totBps) * ceil
      BY <1>3, <2>1, CeilDivBounds
    <2> HIDE DEF ceil, net
    <2>3. (BPS_DENOMINATOR - totBps) * net <= net * BPS_DENOMINATOR
      BY <1>2, <1>3, ProductMonotone
    <2>4. (BPS_DENOMINATOR - totBps) * net <= (BPS_DENOMINATOR - totBps) * ceil
      BY <1>2, <1>3, <2>2, <2>3
    <2> QED BY <1>2, <1>3, <2>2, <2>4, ProductCancel
  <1> HIDE DEF ceil
  <1>6. accepted \in Nat /\ net <= accepted /\ accepted <= grossIn
    BY <1>2, <1>4, <1>5 DEF Min2
  <1>7. totalFee \in Nat
    BY <1>2, <1>6
  <1> HIDE DEF accepted
  <1>8. creatorFee \in Nat /\ creatorFee <= totalFee
    <2>1. CASE totBps = 0
      BY <1>7, <2>1
    <2>2. CASE totBps # 0
      <3> HIDE DEF totalFee, totBps
      <3>1. totalFee * c.CREATOR_FEE_BPS \in Nat
        BY <1>1, <1>7
      <3>2. /\ (totalFee * c.CREATOR_FEE_BPS) \div totBps \in Nat
            /\ totBps * ((totalFee * c.CREATOR_FEE_BPS) \div totBps)
                 <= totalFee * c.CREATOR_FEE_BPS
        BY <1>1, <2>2, <3>1, DivBounds
      <3>3. totalFee * c.CREATOR_FEE_BPS <= totBps * totalFee
        BY <1>1, <1>7, ProductMonotone
      <3>4. totBps * ((totalFee * c.CREATOR_FEE_BPS) \div totBps) <= totBps * totalFee
        BY <1>1, <1>7, <3>1, <3>2, <3>3
      <3>5. (totalFee * c.CREATOR_FEE_BPS) \div totBps <= totalFee
        BY <1>1, <1>7, <2>2, <3>2, <3>4, ProductCancel
      <3> QED BY <2>2, <3>2, <3>5
    <2> QED BY <2>1, <2>2
  <1>9. ClampedSplit(c, grossIn) =
          [ net |-> net, fee |-> totalFee - creatorFee, creatorFee |-> creatorFee,
            acceptedEthGross |-> accepted, refund |-> grossIn - accepted ]
    BY DEF ClampedSplit, accepted, ceil
  <1> HIDE DEF creatorFee
  <1>10. accepted = net + totalFee
    BY <1>2, <1>6
  <1> HIDE DEF totalFee
  <1> QED BY <1>2, <1>6, <1>7, <1>8, <1>9, <1>10 DEF SplitOf

(* Every buy a trading curve could be sent splits exactly. *)
THEOREM BuySplitIsExact ==
    ASSUME NEW c \in CurveState, CurveInvariant(c), c.phase = "Trading",
           NEW grossIn \in Nat, grossIn > 0
    PROVE  SplitOf(BuySplit(c, grossIn), c, grossIn)
  <1>1. CASE PlainSplit(c, grossIn).net > GRADUATION_ETH - c.realEthReserves
    BY <1>1, ClampedSplitExact DEF BuySplit
  <1>2. CASE ~(PlainSplit(c, grossIn).net > GRADUATION_ETH - c.realEthReserves)
    <2>1. PlainSplit(c, grossIn).net \in Int
      <3>1. /\ BpsOf(grossIn, c.TRADE_FEE_BPS) \in Nat
            /\ BpsOf(grossIn, c.CREATOR_FEE_BPS) \in Nat
        BY BpsOfBounds DEF CurveState
      <3> QED BY <3>1 DEF PlainSplit
    <2>2. PlainSplit(c, grossIn).net <= GRADUATION_ETH - c.realEthReserves
      BY <1>2, <2>1, FactoryAssumption DEF CurveState
    <2> QED BY <1>2, <2>2, PlainSplitExact DEF BuySplit
  <1> QED BY <1>1, <1>2

-----------------------------------------------------------------------------
(* State changes of a curve *)

(* A deployed curve starts in its invariant. *)
LEMMA NewCurveInvariant ==
    ASSUME config \in FactoryConfig, AdmissibleConfig(config), NEW creator \in Creator
    PROVE  /\ NewCurve(creator) \in CurveState
           /\ CurveInvariant(NewCurve(creator))
           /\ NewCurve(creator).phase = "Trading"
  BY FactoryAssumption, CurveAssumption
     DEF NewCurve, CurveState, FactoryConfig, CurveInvariant, AdmissibleConfig,
         FeesWithinCeilings, TOTAL_SUPPLY

(* The reserves of a curve that has not graduated are positive, and it     *)
(* never sold more than its virtual inventory.                             *)
LEMMA ReservesPositive ==
    ASSUME NEW c \in CurveState, CurveInvariant(c), c.phase # "Graduated"
    PROVE  /\ c.virtualEthReserves \in Nat /\ c.virtualEthReserves > 0
           /\ c.virtualTokenReserves \in Nat /\ c.virtualTokenReserves > 0
           /\ c.virtualTokenReserves + c.held <= VIRTUAL_TOKEN_0
  <1>1. /\ c.virtualEthReserves \in Nat /\ c.virtualTokenReserves \in Nat
        /\ c.realEthReserves \in Nat /\ c.realTokenReserves \in Nat
        /\ c.tokens \in Nat /\ c.held \in Nat
    BY DEF CurveState
  <1>2. /\ c.virtualEthReserves = VIRTUAL_ETH_0 + c.realEthReserves
        /\ c.virtualTokenReserves + CURVE_SUPPLY = VIRTUAL_TOKEN_0 + c.realTokenReserves
        /\ c.tokens + c.held = CURVE_SUPPLY + LP_TOKEN_TRANCHE
        /\ c.tokens >= c.realTokenReserves + LP_TOKEN_TRANCHE
    BY DEF CurveInvariant, TOTAL_SUPPLY
  <1>3. c.virtualEthReserves > 0
    BY <1>1, <1>2, CurveAssumption
  <1>4. c.virtualTokenReserves > 0
    <2>1. VIRTUAL_ETH_0 * VIRTUAL_TOKEN_0 > 0
      BY CurveAssumption
    <2>2. c.virtualEthReserves * c.virtualTokenReserves >= VIRTUAL_ETH_0 * VIRTUAL_TOKEN_0
      BY DEF CurveInvariant
    <2> QED BY <1>1, <2>1, <2>2, CurveAssumption
  <1>5. c.virtualTokenReserves + c.held <= VIRTUAL_TOKEN_0
    BY <1>1, <1>2, CurveAssumption
  <1> QED BY <1>1, <1>3, <1>4, <1>5

(* The tokens a buy pays out, capped to the sellable inventory, never      *)
(* lower the product: a smaller payout only raises what is kept.           *)
LEMMA TokensOutBounds ==
    ASSUME NEW c \in CurveState, CurveInvariant(c), c.phase # "Graduated", NEW net \in Nat
    PROVE  /\ TokensOut(c, net) \in Nat
           /\ TokensOut(c, net) <= c.virtualTokenReserves
           /\ TokensOut(c, net) <= c.realTokenReserves
           /\ c.virtualEthReserves * c.virtualTokenReserves
                <= (c.virtualEthReserves + net) * (c.virtualTokenReserves - TokensOut(c, net))
  <1> DEFINE vE == c.virtualEthReserves
             vT == c.virtualTokenReserves
             priced == BuyTokensOut(vE, vT, net)
             out == TokensOut(c, net)
  <1>1. vE \in Nat /\ vE > 0 /\ vT \in Nat /\ vT > 0 /\ c.realTokenReserves \in Nat
    BY ReservesPositive DEF CurveState
  <1>2. priced \in Nat /\ priced < vT /\ vE * vT <= (vE + net) * (vT - priced)
    BY <1>1, BuyKeepsK
  <1>3. out \in Nat /\ out <= priced /\ out <= c.realTokenReserves
    <2>1. out = Min2(priced, c.realTokenReserves)
      BY DEF TokensOut
    <2> HIDE DEF priced
    <2> QED BY <1>1, <1>2, <2>1 DEF Min2
  <1> HIDE DEF vE, vT, priced, out
  <1>4. (vE + net) * (vT - priced) <= (vE + net) * (vT - out)
    <2>1. vT - priced \in Nat /\ vT - out \in Nat /\ vE + net \in Nat
          /\ vT - priced <= vT - out
      BY <1>1, <1>2, <1>3
    <2>2. (vT - priced) * (vE + net) <= (vT - out) * (vE + net)
      BY <2>1, ProductMonotone
    <2> QED BY <2>1, <2>2
  <1>5. vE * vT <= (vE + net) * (vT - out)
    BY <1>1, <1>2, <1>3, <1>4
  <1> QED BY <1>1, <1>2, <1>3, <1>5 DEF vE, vT, out

(* A buy preserves the invariant of its curve and never lowers k. *)
THEOREM AfterBuyInvariant ==
    ASSUME NEW c \in CurveState, CurveInvariant(c), c.phase = "Trading",
           NEW grossIn \in Nat, grossIn > 0
    PROVE  /\ AfterBuy(c, grossIn) \in CurveState
           /\ CurveInvariant(AfterBuy(c, grossIn))
           /\ c.virtualEthReserves * c.virtualTokenReserves
                <= AfterBuy(c, grossIn).virtualEthReserves
                     * AfterBuy(c, grossIn).virtualTokenReserves
  <1> DEFINE q == BuySplit(c, grossIn)
             out == TokensOut(c, q.net)
             d == AfterBuy(c, grossIn)
  <1>1. /\ q.net \in Nat /\ q.fee \in Nat /\ q.creatorFee \in Nat /\ q.refund \in Nat
        /\ q.net > 0 /\ q.net <= GRADUATION_ETH - c.realEthReserves
        /\ q.net + q.fee + q.creatorFee + q.refund = grossIn
    <2>1. SplitOf(q, c, grossIn)
      BY BuySplitIsExact
    <2> HIDE DEF q
    <2> QED BY <2>1 DEF SplitOf
  <1>2. out \in Nat /\ out <= c.virtualTokenReserves /\ out <= c.realTokenReserves
    BY <1>1, TokensOutBounds
  <1>2a. c.virtualEthReserves * c.virtualTokenReserves
          <= (c.virtualEthReserves + q.net) * (c.virtualTokenReserves - out)
    BY <1>1, TokensOutBounds
  <1>3. d = [ c EXCEPT
            !.virtualEthReserves = c.virtualEthReserves + q.net,
            !.virtualTokenReserves = c.virtualTokenReserves - out,
            !.realEthReserves = c.realEthReserves + q.net,
            !.realTokenReserves = c.realTokenReserves - out,
            !.accruedFees = c.accruedFees + q.fee,
            !.accruedCreatorFees = c.accruedCreatorFees + q.creatorFee,
            !.phase = IF c.realEthReserves + q.net = GRADUATION_ETH
                      THEN "ReadyToGraduate" ELSE c.phase,
            !.eth = c.eth + grossIn - q.refund,
            !.tokens = c.tokens - out, !.held = c.held + out ]
    BY DEF AfterBuy
  <1> HIDE DEF q, out, d
  <1>4. /\ d.virtualEthReserves = c.virtualEthReserves + q.net
        /\ d.virtualTokenReserves = c.virtualTokenReserves - out
        /\ d.realEthReserves = c.realEthReserves + q.net
        /\ d.realTokenReserves = c.realTokenReserves - out
        /\ d.accruedFees = c.accruedFees + q.fee
        /\ d.accruedCreatorFees = c.accruedCreatorFees + q.creatorFee
        /\ d.phase = IF c.realEthReserves + q.net = GRADUATION_ETH
                     THEN "ReadyToGraduate" ELSE "Trading"
        /\ d.eth = c.eth + grossIn - q.refund
        /\ d.tokens = c.tokens - out /\ d.held = c.held + out
        /\ d.TRADE_FEE_BPS = c.TRADE_FEE_BPS /\ d.CREATOR_FEE_BPS = c.CREATOR_FEE_BPS
        /\ d.GRADUATION_FEE = c.GRADUATION_FEE /\ d.CALLER_REWARD = c.CALLER_REWARD
    BY <1>3 DEF CurveState
  <1>5. /\ c.eth \in Nat /\ c.realEthReserves \in Nat /\ c.accruedFees \in Nat
        /\ c.accruedCreatorFees \in Nat /\ c.virtualEthReserves \in Nat
        /\ c.virtualTokenReserves \in Nat /\ c.realTokenReserves \in Nat
        /\ c.tokens \in Nat /\ c.held \in Nat
    BY DEF CurveState
  <1>6. /\ c.eth >= c.realEthReserves + c.accruedFees + c.accruedCreatorFees
        /\ c.virtualEthReserves = VIRTUAL_ETH_0 + c.realEthReserves
        /\ c.virtualTokenReserves + CURVE_SUPPLY = VIRTUAL_TOKEN_0 + c.realTokenReserves
        /\ c.tokens + c.held = CURVE_SUPPLY + LP_TOKEN_TRANCHE
        /\ c.tokens >= c.realTokenReserves + LP_TOKEN_TRANCHE
        /\ c.TRADE_FEE_BPS + c.CREATOR_FEE_BPS <= MAX_TRADE_FEE_BPS
        /\ c.GRADUATION_FEE <= maxGraduationFee /\ c.CALLER_REWARD <= maxCallerReward
    BY DEF CurveInvariant, TOTAL_SUPPLY
  <1>7. /\ d.eth \in Nat /\ d.realEthReserves \in Nat /\ d.accruedFees \in Nat
        /\ d.accruedCreatorFees \in Nat /\ d.virtualEthReserves \in Nat
        /\ d.virtualTokenReserves \in Nat /\ d.realTokenReserves \in Nat
        /\ d.tokens \in Nat /\ d.held \in Nat
    BY <1>1, <1>2, <1>4, <1>5, <1>6, CurveAssumption
  <1>8. d \in CurveState
    BY <1>3, <1>4, <1>7 DEF CurveState
  <1>9. c.virtualEthReserves * c.virtualTokenReserves
          <= d.virtualEthReserves * d.virtualTokenReserves
    BY <1>2a, <1>4
  <1>10. CurveInvariant(d)
    <2>1. d.eth >= d.realEthReserves + d.accruedFees + d.accruedCreatorFees
      BY <1>1, <1>4, <1>5, <1>6
    <2>2. /\ d.phase = "Trading" => d.realEthReserves < GRADUATION_ETH
          /\ d.phase = "ReadyToGraduate" => d.realEthReserves = GRADUATION_ETH
      BY <1>1, <1>4, <1>5, FactoryAssumption
    <2>3. /\ d.virtualEthReserves = VIRTUAL_ETH_0 + d.realEthReserves
          /\ d.virtualTokenReserves + CURVE_SUPPLY = VIRTUAL_TOKEN_0 + d.realTokenReserves
          /\ d.tokens + d.held = CURVE_SUPPLY + LP_TOKEN_TRANCHE
          /\ d.tokens >= d.realTokenReserves + LP_TOKEN_TRANCHE
      BY <1>1, <1>2, <1>4, <1>5, <1>6, CurveAssumption
    <2>4. d.virtualEthReserves * d.virtualTokenReserves >= VIRTUAL_ETH_0 * VIRTUAL_TOKEN_0
      <3>1. c.virtualEthReserves * c.virtualTokenReserves >= VIRTUAL_ETH_0 * VIRTUAL_TOKEN_0
        BY DEF CurveInvariant
      <3> QED BY <1>5, <1>7, <1>9, <3>1, CurveAssumption
    <2> QED BY <1>4, <1>6, <2>1, <2>2, <2>3, <2>4 DEF CurveInvariant, TOTAL_SUPPLY
  <1> QED BY <1>8, <1>9, <1>10 DEF d

(* Selling never reaches below the initial virtual ETH, so any circulating *)
(* amount is covered by the real reserve and by the ETH the curve holds.   *)
THEOREM AnySaleCovered ==
    ASSUME NEW c \in CurveState, CurveInvariant(c), c.phase = "Trading",
           NEW tokenAmount \in Nat, tokenAmount <= c.held
    PROVE  /\ SellSplit(c, tokenAmount).ethOutGross \in Nat
           /\ SellSplit(c, tokenAmount).fee \in Nat
           /\ SellSplit(c, tokenAmount).creatorFee \in Nat
           /\ SellSplit(c, tokenAmount).ethOut \in Nat
           /\ SellSplit(c, tokenAmount).ethOut + SellSplit(c, tokenAmount).fee
                + SellSplit(c, tokenAmount).creatorFee = SellSplit(c, tokenAmount).ethOutGross
           /\ SellCovered(c, tokenAmount)
  <1> DEFINE vE == c.virtualEthReserves
             vT == c.virtualTokenReserves
             gross == SellEthOut(vE, vT, tokenAmount)
             fee == BpsOf(gross, c.TRADE_FEE_BPS)
             creatorFee == BpsOf(gross, c.CREATOR_FEE_BPS)
             s == SellSplit(c, tokenAmount)
  <1>1. /\ vE \in Nat /\ vE > 0 /\ vT \in Nat /\ vT > 0
        /\ vT + tokenAmount <= VIRTUAL_TOKEN_0
    <2>1. /\ vE \in Nat /\ vE > 0 /\ vT \in Nat /\ vT > 0
          /\ vT + c.held <= VIRTUAL_TOKEN_0
      BY ReservesPositive
    <2>2. c.held \in Nat
      BY DEF CurveState
    <2> HIDE DEF vE, vT
    <2> QED BY <2>1, <2>2, CurveAssumption
  <1>2. vE * vT >= VIRTUAL_ETH_0 * VIRTUAL_TOKEN_0 /\ vE = VIRTUAL_ETH_0 + c.realEthReserves
    BY DEF CurveInvariant
  <1>3. gross \in Nat /\ gross < vE
    BY <1>1, SellKeepsK
  <1>4. vE - gross >= VIRTUAL_ETH_0
    <2>1. /\ VIRTUAL_ETH_0 \in Nat /\ VIRTUAL_TOKEN_0 \in Nat /\ VIRTUAL_TOKEN_0 > 0
      BY CurveAssumption
    <2> HIDE DEF vE, vT
    <2> QED BY <1>1, <1>2, <2>1, SellLeavesInitialEth, Zenon
  <1>5. /\ c.TRADE_FEE_BPS \in Nat /\ c.CREATOR_FEE_BPS \in Nat
        /\ c.TRADE_FEE_BPS + c.CREATOR_FEE_BPS <= MAX_TRADE_FEE_BPS
    BY DEF CurveState, CurveInvariant
  <1>6. s = [ ethOutGross |-> gross, fee |-> fee, creatorFee |-> creatorFee,
              ethOut |-> gross - fee - creatorFee ]
    BY DEF SellSplit
  <1> HIDE DEF gross
  <1>7. fee \in Nat /\ creatorFee \in Nat /\ 2 * (fee + creatorFee) <= gross
    BY <1>3, <1>5, BpsOfBounds, LegsBounded
  <1> HIDE DEF fee, creatorFee, s
  <1>8. /\ s.ethOutGross = gross /\ s.fee = fee /\ s.creatorFee = creatorFee
        /\ s.ethOut = gross - fee - creatorFee
    BY <1>6
  <1>9. /\ c.eth \in Nat /\ c.realEthReserves \in Nat /\ c.accruedFees \in Nat
        /\ c.accruedCreatorFees \in Nat
        /\ c.eth >= c.realEthReserves + c.accruedFees + c.accruedCreatorFees
    BY DEF CurveState, CurveInvariant
  <1>10. gross <= c.realEthReserves
    <2> vE = VIRTUAL_ETH_0 + c.realEthReserves
      BY <1>2
    <2> HIDE DEF vE, vT
    <2> QED BY <1>1, <1>3, <1>4, <1>9, CurveAssumption
  <1>11. s.ethOut <= c.eth
    BY <1>3, <1>7, <1>8, <1>9, <1>10
  <1>12. SellCovered(c, tokenAmount)
    BY <1>8, <1>10, <1>11 DEF SellCovered, s
  <1> QED BY <1>3, <1>7, <1>8, <1>12 DEF s

(* A sale preserves the invariant of its curve and never lowers k. *)
THEOREM AfterSellInvariant ==
    ASSUME NEW c \in CurveState, CurveInvariant(c), c.phase = "Trading",
           NEW tokenAmount \in Nat, tokenAmount <= c.held
    PROVE  /\ AfterSell(c, tokenAmount) \in CurveState
           /\ CurveInvariant(AfterSell(c, tokenAmount))
           /\ c.virtualEthReserves * c.virtualTokenReserves
                <= AfterSell(c, tokenAmount).virtualEthReserves
                     * AfterSell(c, tokenAmount).virtualTokenReserves
  <1> DEFINE s == SellSplit(c, tokenAmount)
             d == AfterSell(c, tokenAmount)
  <1>1. /\ s.ethOutGross \in Nat /\ s.fee \in Nat /\ s.creatorFee \in Nat /\ s.ethOut \in Nat
        /\ s.ethOut + s.fee + s.creatorFee = s.ethOutGross
        /\ s.ethOutGross <= c.realEthReserves /\ s.ethOut <= c.eth
    BY AnySaleCovered DEF SellCovered
  <1>2. c.virtualEthReserves * c.virtualTokenReserves
          <= (c.virtualEthReserves - s.ethOutGross) * (c.virtualTokenReserves + tokenAmount)
    <2>1. s.ethOutGross = SellEthOut(c.virtualEthReserves, c.virtualTokenReserves, tokenAmount)
      BY DEF SellSplit
    <2> HIDE DEF s
    <2> QED BY <2>1, ReservesPositive, SellKeepsK
  <1>3. d = [ c EXCEPT
            !.virtualEthReserves = c.virtualEthReserves - s.ethOutGross,
            !.virtualTokenReserves = c.virtualTokenReserves + tokenAmount,
            !.realEthReserves = c.realEthReserves - s.ethOutGross,
            !.realTokenReserves = c.realTokenReserves + tokenAmount,
            !.accruedFees = c.accruedFees + s.fee,
            !.accruedCreatorFees = c.accruedCreatorFees + s.creatorFee,
            !.eth = c.eth - s.ethOut,
            !.tokens = c.tokens + tokenAmount, !.held = c.held - tokenAmount ]
    BY DEF AfterSell
  <1> HIDE DEF s, d
  <1>4. /\ d.virtualEthReserves = c.virtualEthReserves - s.ethOutGross
        /\ d.virtualTokenReserves = c.virtualTokenReserves + tokenAmount
        /\ d.realEthReserves = c.realEthReserves - s.ethOutGross
        /\ d.realTokenReserves = c.realTokenReserves + tokenAmount
        /\ d.accruedFees = c.accruedFees + s.fee
        /\ d.accruedCreatorFees = c.accruedCreatorFees + s.creatorFee
        /\ d.phase = "Trading"
        /\ d.eth = c.eth - s.ethOut
        /\ d.tokens = c.tokens + tokenAmount /\ d.held = c.held - tokenAmount
        /\ d.TRADE_FEE_BPS = c.TRADE_FEE_BPS /\ d.CREATOR_FEE_BPS = c.CREATOR_FEE_BPS
        /\ d.GRADUATION_FEE = c.GRADUATION_FEE /\ d.CALLER_REWARD = c.CALLER_REWARD
    BY <1>3 DEF CurveState
  <1>5. /\ c.eth \in Nat /\ c.realEthReserves \in Nat /\ c.accruedFees \in Nat
        /\ c.accruedCreatorFees \in Nat /\ c.virtualEthReserves \in Nat
        /\ c.virtualTokenReserves \in Nat /\ c.realTokenReserves \in Nat
        /\ c.tokens \in Nat /\ c.held \in Nat
    BY DEF CurveState
  <1>6. /\ c.eth >= c.realEthReserves + c.accruedFees + c.accruedCreatorFees
        /\ c.realEthReserves < GRADUATION_ETH
        /\ c.virtualEthReserves = VIRTUAL_ETH_0 + c.realEthReserves
        /\ c.virtualTokenReserves + CURVE_SUPPLY = VIRTUAL_TOKEN_0 + c.realTokenReserves
        /\ c.tokens + c.held = CURVE_SUPPLY + LP_TOKEN_TRANCHE
        /\ c.tokens >= c.realTokenReserves + LP_TOKEN_TRANCHE
        /\ c.TRADE_FEE_BPS + c.CREATOR_FEE_BPS <= MAX_TRADE_FEE_BPS
        /\ c.GRADUATION_FEE <= maxGraduationFee /\ c.CALLER_REWARD <= maxCallerReward
    BY DEF CurveInvariant, TOTAL_SUPPLY
  <1>7. /\ d.eth \in Nat /\ d.realEthReserves \in Nat /\ d.accruedFees \in Nat
        /\ d.accruedCreatorFees \in Nat /\ d.virtualEthReserves \in Nat
        /\ d.virtualTokenReserves \in Nat /\ d.realTokenReserves \in Nat
        /\ d.tokens \in Nat /\ d.held \in Nat
    BY <1>1, <1>4, <1>5, <1>6, CurveAssumption
  <1>8. d \in CurveState
    BY <1>3, <1>4, <1>7 DEF CurveState
  <1>9. c.virtualEthReserves * c.virtualTokenReserves
          <= d.virtualEthReserves * d.virtualTokenReserves
    BY <1>2, <1>4
  <1>10. CurveInvariant(d)
    <2>1. d.eth >= d.realEthReserves + d.accruedFees + d.accruedCreatorFees
      BY <1>1, <1>4, <1>5, <1>6
    <2>2. d.phase = "Trading" /\ d.realEthReserves < GRADUATION_ETH
      BY <1>1, <1>4, <1>5, <1>6, FactoryAssumption
    <2>3. d.virtualEthReserves = VIRTUAL_ETH_0 + d.realEthReserves
      <3>1. /\ s.ethOutGross \in Nat /\ VIRTUAL_ETH_0 \in Nat
            /\ d.virtualEthReserves = c.virtualEthReserves - s.ethOutGross
            /\ d.realEthReserves = c.realEthReserves - s.ethOutGross
            /\ c.virtualEthReserves = VIRTUAL_ETH_0 + c.realEthReserves
        BY <1>1, <1>4, <1>6, CurveAssumption
      <3> QED BY <1>5, <3>1
    <2>3b. d.virtualTokenReserves + CURVE_SUPPLY = VIRTUAL_TOKEN_0 + d.realTokenReserves
      <3>1. /\ tokenAmount \in Nat /\ VIRTUAL_TOKEN_0 \in Nat /\ CURVE_SUPPLY \in Nat
            /\ d.virtualTokenReserves = c.virtualTokenReserves + tokenAmount
            /\ d.realTokenReserves = c.realTokenReserves + tokenAmount
            /\ c.virtualTokenReserves + CURVE_SUPPLY = VIRTUAL_TOKEN_0 + c.realTokenReserves
        BY <1>4, <1>6, CurveAssumption
      <3> QED BY <1>5, <3>1
    <2>3a. /\ d.tokens + d.held = CURVE_SUPPLY + LP_TOKEN_TRANCHE
           /\ d.tokens >= d.realTokenReserves + LP_TOKEN_TRANCHE
      BY <1>4, <1>5, <1>6, CurveAssumption
    <2>4. d.virtualEthReserves * d.virtualTokenReserves >= VIRTUAL_ETH_0 * VIRTUAL_TOKEN_0
      <3>1. c.virtualEthReserves * c.virtualTokenReserves >= VIRTUAL_ETH_0 * VIRTUAL_TOKEN_0
        BY DEF CurveInvariant
      <3> QED BY <1>5, <1>7, <1>9, <3>1, CurveAssumption
    <2> QED BY <1>4, <1>6, <2>1, <2>2, <2>3, <2>3a, <2>3b, <2>4 DEF CurveInvariant, TOTAL_SUPPLY
  <1> QED BY <1>8, <1>9, <1>10 DEF d

(* A full curve can pay its caller and still fund the migration: the       *)
(* ceilings the constructor checked cover whatever it was launched with.   *)
THEOREM FullCurveIsFundable ==
    ASSUME NEW c \in CurveState, CurveInvariant(c), c.phase = "ReadyToGraduate"
    PROVE  EthForMigrator(c) \in Nat /\ EthForMigrator(c) > c.GRADUATION_FEE
  <1>1. /\ c.eth \in Nat /\ c.accruedFees \in Nat /\ c.accruedCreatorFees \in Nat
        /\ c.GRADUATION_FEE \in Nat /\ c.CALLER_REWARD \in Nat /\ c.realEthReserves \in Nat
    BY DEF CurveState
  <1>2. /\ c.eth >= c.realEthReserves + c.accruedFees + c.accruedCreatorFees
        /\ c.realEthReserves = GRADUATION_ETH
        /\ c.GRADUATION_FEE <= maxGraduationFee /\ c.CALLER_REWARD <= maxCallerReward
    BY DEF CurveInvariant
  <1> QED BY <1>1, <1>2, FactoryAssumption DEF EthForMigrator

(* Graduation leaves the curve with its escrows only. *)
LEMMA AfterGraduateInvariant ==
    ASSUME NEW c \in CurveState, CurveInvariant(c)
    PROVE  AfterGraduate(c) \in CurveState /\ CurveInvariant(AfterGraduate(c))
  <1> DEFINE d == AfterGraduate(c)
  <1>1. /\ c.accruedFees \in Nat /\ c.accruedCreatorFees \in Nat
        /\ c.accruedFees + c.accruedCreatorFees \in Nat
    BY DEF CurveState
  <1>2. d \in CurveState
    BY <1>1 DEF AfterGraduate, CurveState
  <1>3. /\ d.phase = "Graduated" /\ d.realEthReserves = 0
        /\ d.eth = c.accruedFees + c.accruedCreatorFees
        /\ d.accruedFees = c.accruedFees /\ d.accruedCreatorFees = c.accruedCreatorFees
        /\ d.TRADE_FEE_BPS = c.TRADE_FEE_BPS /\ d.CREATOR_FEE_BPS = c.CREATOR_FEE_BPS
        /\ d.GRADUATION_FEE = c.GRADUATION_FEE /\ d.CALLER_REWARD = c.CALLER_REWARD
    BY DEF AfterGraduate, CurveState
  <1> HIDE DEF d
  <1>4. CurveInvariant(d)
    BY <1>1, <1>3 DEF CurveInvariant
  <1> QED BY <1>2, <1>4 DEF d

-----------------------------------------------------------------------------
(* The launchpad *)

(* The three parts of Inv.  A step that touches one curve is proved on     *)
(* that curve alone.                                                       *)
CurvesOK ==
    /\ isCurve \subseteq Curve
    /\ curve \in [isCurve -> CurveState]
    /\ \A a \in isCurve : CurveInvariant(curve[a])

ConfigOK == config \in FactoryConfig /\ AdmissibleConfig(config)

LedgersOK ==
    /\ globalCurveEth \in Nat /\ vaultEth \in Int /\ balanceOf \in [Creator -> Nat]
    /\ wallet \in Nat /\ treasuryEth \in Nat /\ migratorEth \in Nat
    /\ migratorTokens \in [Curve -> Nat]

LEMMA InvParts == Inv <=> CurvesOK /\ ConfigOK /\ LedgersOK
  BY DEF Inv, TypeOK, CurvesOK, ConfigOK, LedgersOK

(* Replacing the state of one curve by another that satisfies the          *)
(* invariant of a curve.                                                   *)
LEMMA OneCurveChanges ==
    ASSUME CurvesOK, NEW a \in isCurve, NEW d \in CurveState, CurveInvariant(d),
           curve' = [curve EXCEPT ![a] = d]
    PROVE  CurvesOK'
  BY DEF CurvesOK, isCurve, CurveState, CurveInvariant

LEMMA CurveOf ==
    ASSUME CurvesOK, NEW a \in isCurve
    PROVE  curve[a] \in CurveState /\ CurveInvariant(curve[a])
  BY DEF CurvesOK

LEMMA GlobalEthTyped ==
    ASSUME globalCurveEth \in Nat, NEW delta \in Nat
    PROVE  EthRecorded(delta) \in Nat /\ EthReleased(delta) \in Nat
  BY DEF EthRecorded, EthReleased

-----------------------------------------------------------------------------
(* Init and each action *)

LEMMA InitInv == Init => Inv
  <1> SUFFICES ASSUME Init PROVE Inv
    OBVIOUS
  <1>1. ConfigOK
    BY FactoryAssumption
       DEF Init, FactoryInit, ConfigOK, FactoryConfig
  <1>2. CurvesOK
    BY DEF Init, BondingCurveInit, CurvesOK, isCurve
  <1>3. LedgersOK
    BY InitialEthAssumption
       DEF Init, FactoryInit, VaultInit, BondingCurveInit, LedgersOK
  <1> QED BY <1>1, <1>2, <1>3, InvParts

LEMMA BuyInv ==
    ASSUME Inv, NEW a \in isCurve, NEW grossIn \in 1 .. wallet, Buy(a, grossIn)
    PROVE  Inv'
  <1> DEFINE q == BuySplit(curve[a], grossIn)
  <1>1. CurvesOK /\ ConfigOK /\ LedgersOK /\ CurveBuy(a, grossIn)
    BY InvParts DEF Buy
  <1>2. curve[a] \in CurveState /\ CurveInvariant(curve[a]) /\ curve[a].phase = "Trading"
    BY <1>1, CurveOf DEF CurveBuy, CanBuy
  <1>3. grossIn \in Nat /\ grossIn > 0 /\ grossIn <= wallet
    BY <1>1 DEF LedgersOK
  <1>4. AfterBuy(curve[a], grossIn) \in CurveState /\ CurveInvariant(AfterBuy(curve[a], grossIn))
    BY <1>2, <1>3, AfterBuyInvariant
  <1>5. CurvesOK'
    BY <1>1, <1>4, OneCurveChanges DEF CurveBuy
  <1>6. q.net \in Nat /\ q.refund \in Nat
    BY <1>2, <1>3, BuySplitIsExact DEF SplitOf
  <1>7. LedgersOK'
    BY <1>1, <1>3, <1>6, GlobalEthTyped DEF LedgersOK, CurveBuy, vaultVars
  <1>8. ConfigOK'
    BY <1>1 DEF ConfigOK, CurveBuy, AdmissibleConfig
  <1> QED BY <1>5, <1>7, <1>8, InvParts, PTL

LEMMA SellInv ==
    ASSUME Inv, NEW a \in isCurve, NEW tokenAmount \in 1 .. curve[a].held, Sell(a, tokenAmount)
    PROVE  Inv'
  <1> DEFINE s == SellSplit(curve[a], tokenAmount)
  <1>1. CurvesOK /\ ConfigOK /\ LedgersOK /\ CurveSell(a, tokenAmount)
    BY InvParts DEF Sell
  <1>2. curve[a] \in CurveState /\ CurveInvariant(curve[a]) /\ curve[a].phase = "Trading"
    BY <1>1, CurveOf DEF CurveSell
  <1>3. tokenAmount \in Nat /\ tokenAmount <= curve[a].held
    BY <1>2 DEF CurveState
  <1>4. AfterSell(curve[a], tokenAmount) \in CurveState
        /\ CurveInvariant(AfterSell(curve[a], tokenAmount))
    BY <1>2, <1>3, AfterSellInvariant
  <1>5. CurvesOK'
    BY <1>1, <1>4, OneCurveChanges DEF CurveSell
  <1>6. s.ethOutGross \in Nat /\ s.ethOut \in Nat
    BY <1>2, <1>3, AnySaleCovered
  <1>7. LedgersOK'
    BY <1>1, <1>6, GlobalEthTyped DEF LedgersOK, CurveSell, vaultVars
  <1>8. ConfigOK'
    BY <1>1 DEF ConfigOK, CurveSell, AdmissibleConfig
  <1> QED BY <1>5, <1>7, <1>8, InvParts, PTL

LEMMA SweepFeesInv ==
    ASSUME Inv, NEW a \in isCurve, SweepFees(a)
    PROVE  Inv'
  <1> DEFINE c == curve[a]
             d == AfterSweepFees(c)
  <1>1. CurvesOK /\ ConfigOK /\ LedgersOK
    BY InvParts
  <1>2. c \in CurveState /\ CurveInvariant(c)
    BY <1>1, CurveOf
  <1>3. curve' = [curve EXCEPT ![a] = d] /\ c.accruedFees \in Nat
    BY <1>2 DEF SweepFees, CurveState
  <1>4. LedgersOK'
    BY <1>1, <1>3 DEF LedgersOK, SweepFees, factoryVars, vaultVars
  <1>5. ConfigOK'
    BY <1>1 DEF ConfigOK, SweepFees, factoryVars, AdmissibleConfig
  <1>6. d \in CurveState /\ CurveInvariant(d)
    <2> HIDE DEF c
    <2>1. c.eth \in Nat /\ c.eth - c.accruedFees \in Nat
      BY <1>2 DEF CurveState, CurveInvariant
    <2>2. d \in CurveState
      BY <1>2, <2>1 DEF CurveState, AfterSweepFees
    <2>3. CurveInvariant(d)
      BY <1>2, <2>1 DEF CurveState, CurveInvariant, AfterSweepFees
    <2> QED BY <2>2, <2>3
  <1>7. CurvesOK'
    BY <1>1, <1>3, <1>6, OneCurveChanges
  <1> QED BY <1>4, <1>5, <1>7, InvParts, PTL

LEMMA SweepCreatorFeesInv ==
    ASSUME Inv, NEW a \in isCurve, SweepCreatorFees(a)
    PROVE  Inv'
  <1> DEFINE c == curve[a]
             d == AfterSweepCreatorFees(c)
  <1>1. CurvesOK /\ ConfigOK /\ LedgersOK
    BY InvParts
  <1>2. c \in CurveState /\ CurveInvariant(c)
    BY <1>1, CurveOf
  <1>3. curve' = [curve EXCEPT ![a] = d] /\ c.accruedCreatorFees \in Nat /\ c.creator \in Creator
    BY <1>2 DEF SweepCreatorFees, CurveState
  <1>4. LedgersOK'
    BY <1>1, <1>3 DEF LedgersOK, SweepCreatorFees, Deposit, factoryVars
  <1>5. ConfigOK'
    BY <1>1 DEF ConfigOK, SweepCreatorFees, factoryVars, AdmissibleConfig
  <1>6. d \in CurveState /\ CurveInvariant(d)
    <2> HIDE DEF c
    <2>1. c.eth \in Nat /\ c.eth - c.accruedCreatorFees \in Nat
      BY <1>2 DEF CurveState, CurveInvariant
    <2>2. d \in CurveState
      BY <1>2, <2>1 DEF CurveState, AfterSweepCreatorFees
    <2>3. CurveInvariant(d)
      BY <1>2, <2>1 DEF CurveState, CurveInvariant, AfterSweepCreatorFees
    <2> QED BY <2>2, <2>3
  <1>7. CurvesOK'
    BY <1>1, <1>3, <1>6, OneCurveChanges
  <1> QED BY <1>4, <1>5, <1>7, InvParts, PTL

LEMMA GraduateInv ==
    ASSUME Inv, NEW a \in isCurve, Graduate(a)
    PROVE  Inv'
  <1> DEFINE c == curve[a]
  <1>1. CurvesOK /\ ConfigOK /\ LedgersOK
    BY InvParts
  <1>2. c \in CurveState /\ CurveInvariant(c) /\ c.phase = "ReadyToGraduate"
    BY <1>1, CurveOf DEF Graduate
  <1>3. AfterGraduate(c) \in CurveState /\ CurveInvariant(AfterGraduate(c))
    BY <1>2, AfterGraduateInvariant
  <1>4. CurvesOK'
    BY <1>1, <1>3, OneCurveChanges DEF Graduate
  <1>5. /\ EthForMigrator(c) \in Nat /\ c.CALLER_REWARD \in Nat
        /\ c.realEthReserves \in Nat /\ c.tokens \in Nat
    BY <1>2, FullCurveIsFundable DEF CurveState
  <1>6. LedgersOK'
    BY <1>1, <1>5, GlobalEthTyped DEF LedgersOK, Graduate, vaultVars, CurvesOK
  <1>7. ConfigOK'
    BY <1>1 DEF ConfigOK, Graduate, AdmissibleConfig
  <1> QED BY <1>4, <1>6, <1>7, InvParts, PTL

LEMMA DonateEthInv ==
    ASSUME Inv, NEW a \in isCurve, NEW amount \in 1 .. wallet, DonateEth(a, amount)
    PROVE  Inv'
  <1> DEFINE c == curve[a]
             d == AfterEthDonation(c, amount)
  <1>1. CurvesOK /\ ConfigOK /\ LedgersOK
    BY InvParts
  <1>2. c \in CurveState /\ CurveInvariant(c)
    BY <1>1, CurveOf
  <1>3. curve' = [curve EXCEPT ![a] = d] /\ amount \in Nat /\ amount <= wallet
    BY <1>1 DEF DonateEth, LedgersOK
  <1>4. LedgersOK'
    BY <1>1, <1>3 DEF LedgersOK, DonateEth, factoryVars, vaultVars
  <1>5. ConfigOK'
    BY <1>1 DEF ConfigOK, DonateEth, factoryVars, AdmissibleConfig
  <1>6. d \in CurveState /\ CurveInvariant(d)
    <2> HIDE DEF c
    <2>1. c.eth \in Nat /\ c.eth + amount \in Nat
      BY <1>2, <1>3 DEF CurveState
    <2>2. d \in CurveState
      BY <1>2, <2>1 DEF CurveState, AfterEthDonation
    <2>3. CurveInvariant(d)
      BY <1>2, <1>3, <2>1 DEF CurveState, CurveInvariant, AfterEthDonation
    <2> QED BY <2>2, <2>3
  <1>7. CurvesOK'
    BY <1>1, <1>3, <1>6, OneCurveChanges
  <1> QED BY <1>4, <1>5, <1>7, InvParts, PTL

LEMMA DonateTokensInv ==
    ASSUME Inv, NEW a \in isCurve, NEW amount \in 1 .. curve[a].held, DonateTokens(a, amount)
    PROVE  Inv'
  <1> DEFINE c == curve[a]
             d == AfterTokenDonation(c, amount)
  <1>1. CurvesOK /\ ConfigOK /\ LedgersOK
    BY InvParts
  <1>2. c \in CurveState /\ CurveInvariant(c)
    BY <1>1, CurveOf
  <1>3. curve' = [curve EXCEPT ![a] = d]
    BY DEF DonateTokens
  <1>4. LedgersOK'
    BY <1>1, <1>3 DEF LedgersOK, DonateTokens, factoryVars, vaultVars
  <1>5. ConfigOK'
    BY <1>1 DEF ConfigOK, DonateTokens, factoryVars, AdmissibleConfig
  <1>6. amount \in Nat /\ amount <= c.held /\ c.held \in Nat /\ c.tokens \in Nat
    BY <1>2 DEF CurveState
  <1>7. d \in CurveState /\ CurveInvariant(d)
    <2> HIDE DEF c
    <2>1. c.tokens + amount \in Nat /\ c.held - amount \in Nat
      BY <1>6
    <2>2. d \in CurveState
      BY <1>2, <2>1 DEF CurveState, AfterTokenDonation
    <2>3. CurveInvariant(d)
      BY <1>2, <1>6, <2>1, CurveAssumption DEF CurveState, CurveInvariant, AfterTokenDonation
    <2> QED BY <2>2, <2>3
  <1>8. CurvesOK'
    BY <1>1, <1>3, <1>7, OneCurveChanges
  <1> QED BY <1>4, <1>5, <1>8, InvParts, PTL

LEMMA EarlyWindowEndsInv ==
    ASSUME Inv, NEW a \in isCurve, EarlyWindowEnds(a)
    PROVE  Inv'
  <1> DEFINE c == curve[a]
             d == [c EXCEPT !.inEarlyWindow = FALSE]
  <1>1. CurvesOK /\ ConfigOK /\ LedgersOK
    BY InvParts
  <1>2. c \in CurveState /\ CurveInvariant(c)
    BY <1>1, CurveOf
  <1>3. curve' = [curve EXCEPT ![a] = d]
    BY DEF EarlyWindowEnds
  <1>4. LedgersOK'
    BY <1>1, <1>3 DEF LedgersOK, EarlyWindowEnds, factoryVars, vaultVars
  <1>5. ConfigOK'
    BY <1>1 DEF ConfigOK, EarlyWindowEnds, factoryVars, AdmissibleConfig
  <1>6. d \in CurveState /\ CurveInvariant(d)
    <2> HIDE DEF c
    <2> QED BY <1>2 DEF CurveState, CurveInvariant
  <1>7. CurvesOK'
    BY <1>1, <1>3, <1>6, OneCurveChanges
  <1> QED BY <1>4, <1>5, <1>7, InvParts, PTL

LEMMA CreateTokenInv ==
    ASSUME Inv, NEW a \in Curve, NEW creator \in Creator, NEW value \in 0 .. wallet,
           CreateToken(a, creator, value)
    PROVE  Inv'
  <1> DEFINE fresh == NewCurve(creator)
             initialBuy == value - config.creationFee
             q == BuySplit(fresh, initialBuy)
             d == IF initialBuy = 0 THEN fresh ELSE AfterBuy(fresh, initialBuy)
  <1>1. CurvesOK /\ ConfigOK /\ LedgersOK
    BY InvParts
  <1>2. fresh \in CurveState /\ CurveInvariant(fresh) /\ fresh.phase = "Trading"
    BY <1>1, NewCurveInvariant DEF ConfigOK
  <1>3. /\ value \in Nat /\ value <= wallet /\ config.creationFee \in Nat
        /\ initialBuy \in Nat
    BY <1>1 DEF CreateToken, ConfigOK, FactoryConfig, LedgersOK
  <1> HIDE DEF fresh, initialBuy
  <1>4. d \in CurveState /\ CurveInvariant(d)
    <2>1. CASE initialBuy = 0
      BY <1>2, <2>1
    <2>2. CASE initialBuy # 0
      BY <1>2, <1>3, <2>2, AfterBuyInvariant
    <2> QED BY <2>1, <2>2
  <1>5. CurvesOK'
    <2>1. curve' = [x \in isCurve \cup {a} |-> IF x # a THEN curve[x] ELSE d]
      BY DEF CreateToken, fresh, initialBuy
    <2>2. a \notin isCurve
      BY DEF CreateToken
    <2> HIDE DEF d
    <2>3. isCurve' = isCurve \cup {a}
      BY <2>1 DEF isCurve
    <2>4. \A x \in isCurve' : curve'[x] \in CurveState /\ CurveInvariant(curve'[x])
      BY <1>1, <1>4, <2>1, <2>2, <2>3 DEF CurvesOK
    <2>5. curve' \in [isCurve' -> CurveState]
      BY <2>1, <2>3, <2>4
    <2>6. (\A x \in isCurve : CurveInvariant(curve[x]))'
      BY <2>4 DEF CurveInvariant
    <2>7. isCurve' \subseteq Curve
      BY <1>1, <2>3 DEF CurvesOK
    <2> QED BY <2>5, <2>6, <2>7 DEF CurvesOK
  <1>6. initialBuy # 0 => q.net \in Nat /\ q.refund \in Nat
    <2> SUFFICES ASSUME initialBuy # 0 PROVE q.net \in Nat /\ q.refund \in Nat
      OBVIOUS
    <2> QED BY <1>2, <1>3, BuySplitIsExact DEF SplitOf
  <1>7. LedgersOK'
    <2>1. globalCurveEth' \in Nat
      BY <1>1, <1>6, GlobalEthTyped DEF CreateToken, LedgersOK, fresh, initialBuy
    <2>2. wallet' \in Nat
      BY <1>1, <1>3, <1>6 DEF CreateToken, LedgersOK, fresh, initialBuy
    <2>3. treasuryEth' \in Nat
      BY <1>1, <1>3 DEF CreateToken, LedgersOK
    <2> QED BY <1>1, <2>1, <2>2, <2>3 DEF CreateToken, LedgersOK, vaultVars
  <1>8. ConfigOK'
    BY <1>1 DEF ConfigOK, CreateToken, AdmissibleConfig
  <1> QED BY <1>5, <1>7, <1>8, InvParts, PTL

LEMMA ClaimInv ==
    ASSUME Inv, NEW creator \in Creator, ClaimCreatorFees(creator)
    PROVE  Inv'
  <1>1. CurvesOK /\ ConfigOK /\ LedgersOK
    BY InvParts
  <1>2. CurvesOK'
    BY <1>1 DEF CurvesOK, ClaimCreatorFees, isCurve, CurveInvariant
  <1>3. ConfigOK'
    BY <1>1 DEF ConfigOK, ClaimCreatorFees, factoryVars, AdmissibleConfig
  <1>4. LedgersOK'
    BY <1>1 DEF LedgersOK, ClaimCreatorFees, Claim, factoryVars
  <1> QED BY <1>2, <1>3, <1>4, InvParts, PTL

(* Every setter keeps the configuration admissible: each fee setter checks *)
(* its argument against the other leg, setCaps both caps.                  *)
LEMMA OwnerInv ==
    ASSUME Inv, OwnerStep
    PROVE  Inv'
  <1>1. CurvesOK /\ ConfigOK /\ LedgersOK
    BY InvParts
  <1>2. CurvesOK' /\ LedgersOK'
    BY <1>1 DEF CurvesOK, LedgersOK, OwnerStep, isCurve, CurveInvariant, vaultVars, curveVars
  <1>3. ConfigOK'
    <2> USE <1>1 DEF ConfigOK, FactoryConfig, AdmissibleConfig, FeesWithinCeilings
    <2>1. ASSUME NEW paused \in BOOLEAN, SetPauseCreates(paused) PROVE ConfigOK'
      BY <2>1 DEF SetPauseCreates
    <2>2. ASSUME NEW paused \in BOOLEAN, SetPauseBuys(paused) PROVE ConfigOK'
      BY <2>2 DEF SetPauseBuys
    <2>3. ASSUME NEW t \in Treasury, SetTreasury(t) PROVE ConfigOK'
      BY <2>3 DEF SetTreasury
    <2>4. ASSUME NEW bps \in BpsInput, SetTradeFeeBps(bps) PROVE ConfigOK'
      BY <2>4, FactoryAssumption DEF SetTradeFeeBps
    <2>5. ASSUME NEW bps \in BpsInput, SetCreatorFeeBps(bps) PROVE ConfigOK'
      BY <2>5, FactoryAssumption DEF SetCreatorFeeBps
    <2>6. ASSUME NEW fee \in FlatFeeInput, SetCreationFee(fee) PROVE ConfigOK'
      BY <2>6, FactoryAssumption DEF SetCreationFee
    <2>7. ASSUME NEW fee \in FlatFeeInput, SetGraduationFee(fee) PROVE ConfigOK'
      BY <2>7, FactoryAssumption DEF SetGraduationFee
    <2>8. ASSUME NEW reward \in FlatFeeInput, SetCallerReward(reward) PROVE ConfigOK'
      BY <2>8, FactoryAssumption DEF SetCallerReward
    <2>9. ASSUME NEW window \in BOOLEAN, NEW maxEarly \in EarlyBuyInput,
                 SetAntiSniper(window, maxEarly)
          PROVE  ConfigOK'
      BY <2>9, FactoryAssumption DEF SetAntiSniper
    <2>10. ASSUME NEW perToken \in CapInput, NEW global \in CapInput, SetCaps(perToken, global)
           PROVE  ConfigOK'
      BY <2>10, FactoryAssumption DEF SetCaps, CapsReachGraduation
    <2> QED BY <2>1, <2>2, <2>3, <2>4, <2>5, <2>6, <2>7, <2>8, <2>9, <2>10
            DEF OwnerStep, OwnerSets
  <1> QED BY <1>2, <1>3, InvParts, PTL

-----------------------------------------------------------------------------
(* The invariant *)

(* Inv is inductive. *)
LEMMA NextInv == Inv /\ [Next]_vars => Inv'
  <1> SUFFICES ASSUME Inv, [Next]_vars PROVE Inv'
    OBVIOUS
  <1>1. ASSUME NEW a \in Curve, NEW creator \in Creator, NEW value \in 0 .. wallet,
               CreateToken(a, creator, value)
        PROVE  Inv'
    BY <1>1, CreateTokenInv
  <1>2. ASSUME NEW a \in isCurve, NEW grossIn \in 1 .. wallet, Buy(a, grossIn) PROVE Inv'
    BY <1>2, BuyInv
  <1>3. ASSUME NEW a \in isCurve, NEW tokenAmount \in 1 .. curve[a].held, Sell(a, tokenAmount)
        PROVE  Inv'
    BY <1>3, SellInv
  <1>4. ASSUME NEW a \in isCurve, SweepFees(a) PROVE Inv'
    BY <1>4, SweepFeesInv
  <1>5. ASSUME NEW a \in isCurve, SweepCreatorFees(a) PROVE Inv'
    BY <1>5, SweepCreatorFeesInv
  <1>6. ASSUME NEW a \in isCurve, Graduate(a) PROVE Inv'
    BY <1>6, GraduateInv
  <1>7. ASSUME NEW a \in isCurve, NEW amount \in 1 .. wallet, DonateEth(a, amount) PROVE Inv'
    BY <1>7, DonateEthInv
  <1>8. ASSUME NEW a \in isCurve, NEW amount \in 1 .. curve[a].held, DonateTokens(a, amount)
        PROVE  Inv'
    BY <1>8, DonateTokensInv
  <1>9. ASSUME NEW a \in isCurve, EarlyWindowEnds(a) PROVE Inv'
    BY <1>9, EarlyWindowEndsInv
  <1>10. ASSUME NEW creator \in Creator, ClaimCreatorFees(creator) PROVE Inv'
    BY <1>10, ClaimInv
  <1>11. CASE OwnerStep
    BY <1>11, OwnerInv
  <1>12. CASE UNCHANGED vars
    <2>1. UNCHANGED <<config, globalCurveEth, vaultEth, balanceOf, curve, wallet,
                      treasuryEth, migratorEth, migratorTokens>>
      BY <1>12 DEF vars, factoryVars, vaultVars, curveVars
    <2> QED BY <2>1 DEF Inv, TypeOK, isCurve, AdmissibleConfig, CurveInvariant
  <1> QED BY <1>1, <1>2, <1>3, <1>4, <1>5, <1>6, <1>7, <1>8, <1>9, <1>10, <1>11, <1>12 DEF Next

(* Every reachable state of the launchpad satisfies Inv. *)
THEOREM InvariantHolds == Spec => []Inv
  BY InitInv, NextInv, PTL DEF Spec

-----------------------------------------------------------------------------
(* What follows from it *)

(* Types are correct in every reachable state. *)
THEOREM TypeCorrect == Spec => []TypeOK
  <1>1. Inv => TypeOK
    BY DEF Inv
  <1> QED BY <1>1, InvariantHolds, PTL

(* Curves are solvent, lock exactly at the threshold and back their        *)
(* inventory with tokens they have.                                        *)
THEOREM CurveSafety == Spec => []CurvesAreSound
  <1>1. Inv => CurvesAreSound
    BY DEF Inv, CurveInvariant, CurvesAreSound, Solvency, LockedExactlyAtThreshold,
           InventoryBacked
  <1> QED BY <1>1, InvariantHolds, PTL

(* The additive fee ceiling holds for the factory and on every curve.      *)
THEOREM FeesBounded == Spec => []FeeCeiling
  <1>1. Inv => FeeCeiling
    BY DEF Inv, CurveInvariant, AdmissibleConfig, FeeCeiling
  <1> QED BY <1>1, InvariantHolds, PTL

(* No reachable state blocks the sale of any circulating amount. *)
THEOREM SalesNeverBlocked == Spec => []SellNeverBlocked
  <1>1. Inv => SellNeverBlocked
    <2> SUFFICES ASSUME Inv, NEW a \in isCurve, curve[a].phase = "Trading",
                        NEW amount \in 1 .. curve[a].held
                 PROVE  SellCovered(curve[a], amount)
      BY DEF SellNeverBlocked
    <2>1. curve[a] \in CurveState /\ CurveInvariant(curve[a])
      BY InvParts, CurveOf
    <2>2. amount \in Nat /\ amount <= curve[a].held
      BY <2>1 DEF CurveState
    <2> QED BY <2>1, <2>2, AnySaleCovered
  <1> QED BY <1>1, InvariantHolds, PTL

(* Every buy that can be sent to a trading curve splits exactly (F-1). *)
THEOREM BuysSplitExactly == Spec => []BuySplitExact
  <1>1. Inv => BuySplitExact
    <2> SUFFICES ASSUME Inv, NEW a \in isCurve, curve[a].phase = "Trading",
                        NEW grossIn \in 1 .. wallet
                 PROVE  LET q == BuySplit(curve[a], grossIn) IN
                        /\ q.refund >= 0 /\ q.fee >= 0 /\ q.creatorFee >= 0
                        /\ q.net > 0 /\ q.net <= GRADUATION_ETH - curve[a].realEthReserves
                        /\ q.net + q.fee + q.creatorFee = q.acceptedEthGross
                        /\ q.acceptedEthGross + q.refund = grossIn
      BY DEF BuySplitExact
    <2> DEFINE q == BuySplit(curve[a], grossIn)
    <2>1. curve[a] \in CurveState /\ CurveInvariant(curve[a])
      BY InvParts, CurveOf
    <2>2. grossIn \in Nat /\ grossIn > 0
      BY DEF Inv, TypeOK
    <2>3. SplitOf(q, curve[a], grossIn)
      BY <2>1, <2>2, BuySplitIsExact
    <2> HIDE DEF q
    <2>4. /\ q.refund >= 0 /\ q.fee >= 0 /\ q.creatorFee >= 0
          /\ q.net > 0 /\ q.net <= GRADUATION_ETH - curve[a].realEthReserves
          /\ q.net + q.fee + q.creatorFee = q.acceptedEthGross
          /\ q.acceptedEthGross + q.refund = grossIn
      BY <2>3 DEF SplitOf
    <2> QED BY <2>4 DEF q
  <1> QED BY <1>1, InvariantHolds, PTL

(* A full curve can always fund its graduation. *)
THEOREM GraduationAlwaysFundable == Spec => []GraduationFundable
  <1>1. Inv => GraduationFundable
    <2> SUFFICES ASSUME Inv, NEW a \in isCurve, curve[a].phase = "ReadyToGraduate"
                 PROVE  EthForMigrator(curve[a]) > curve[a].GRADUATION_FEE
      BY DEF GraduationFundable
    <2>1. curve[a] \in CurveState /\ CurveInvariant(curve[a])
      BY InvParts, CurveOf
    <2> QED BY <2>1, FullCurveIsFundable
  <1> QED BY <1>1, InvariantHolds, PTL

-----------------------------------------------------------------------------
(* The ledgers *)

RealEth == SumFunction([a \in isCurve |-> curve[a].realEthReserves])
HeldEth == SumFunction([a \in isCurve |-> curve[a].eth])

(* The ETH that is in no curve. *)
EthOutside == wallet + treasuryEth + vaultEth + migratorEth

(* The books: what the ledgers say is what the sums over all curves and    *)
(* all creators are.  A sum is known to change by one term only while      *)
(* finitely many curves exist, so that is part of the invariant.           *)
Books ==
    /\ IsFiniteSet(isCurve)
    /\ globalCurveEth = RealEth
    /\ vaultEth = SumFunction(balanceOf)
    /\ EthOutside + HeldEth = InitialEth

LEMMA BooksMean == Books => LedgersExact /\ EthConserved
  BY DEF Books, LedgersExact, EthConserved, GlobalEthIsTheSum, VaultExact,
         RealEth, HeldEth, EthOutside

(* Both sums are natural, and no curve's reserve exceeds the first.        *)
LEMMA SumsTyped ==
    ASSUME CurvesOK, IsFiniteSet(isCurve)
    PROVE  /\ RealEth \in Nat /\ HeldEth \in Nat
           /\ \A a \in isCurve : curve[a].realEthReserves <= RealEth
  <1> DEFINE f == [a \in isCurve |-> curve[a].realEthReserves]
             e == [a \in isCurve |-> curve[a].eth]
  <1>1. /\ DOMAIN f = isCurve /\ DOMAIN e = isCurve
        /\ \A a \in isCurve : f[a] \in Nat /\ e[a] \in Nat
        /\ \A a \in isCurve : f[a] = curve[a].realEthReserves
    BY DEF CurvesOK, CurveState
  <1>2. RealEth = SumFunction(f) /\ HeldEth = SumFunction(e)
    BY DEF RealEth, HeldEth
  <1> HIDE DEF f, e
  <1>3. /\ SumFunctionOnSet(f, isCurve) \in Nat
        /\ \A a \in isCurve : f[a] <= SumFunctionOnSet(f, isCurve)
    BY <1>1, SumOfNaturals
  <1>4. SumFunctionOnSet(e, isCurve) \in Nat
    BY <1>1, SumOfNaturals
  <1> QED BY <1>1, <1>2, <1>3, <1>4 DEF SumFunction

(* A step on one curve changes both sums by what changes there. *)
LEMMA OneCurveSums ==
    ASSUME CurvesOK, IsFiniteSet(isCurve), NEW a \in isCurve, NEW d \in CurveState,
           curve' = [curve EXCEPT ![a] = d]
    PROVE  /\ isCurve' = isCurve
           /\ RealEth' = RealEth - curve[a].realEthReserves + d.realEthReserves
           /\ HeldEth' = HeldEth - curve[a].eth + d.eth
  <1> DEFINE f == [x \in isCurve |-> curve[x].realEthReserves]
             e == [x \in isCurve |-> curve[x].eth]
  <1>1. isCurve' = isCurve
    BY DEF CurvesOK, isCurve
  <1>2. /\ f \in [isCurve -> Int] /\ e \in [isCurve -> Int]
        /\ d.realEthReserves \in Int /\ d.eth \in Int
        /\ f[a] = curve[a].realEthReserves /\ e[a] = curve[a].eth
    BY DEF CurvesOK, CurveState
  <1>3. /\ [f EXCEPT ![a] = d.realEthReserves] = [x \in isCurve |-> curve'[x].realEthReserves]
        /\ [e EXCEPT ![a] = d.eth] = [x \in isCurve |-> curve'[x].eth]
    BY DEF CurvesOK
  <1>4. /\ RealEth = SumFunction(f) /\ HeldEth = SumFunction(e)
        /\ RealEth' = SumFunction([f EXCEPT ![a] = d.realEthReserves])
        /\ HeldEth' = SumFunction([e EXCEPT ![a] = d.eth])
    BY <1>1, <1>3 DEF RealEth, HeldEth
  <1> HIDE DEF f, e
  <1>5. /\ SumFunction([f EXCEPT ![a] = d.realEthReserves])
             = SumFunction(f) - f[a] + d.realEthReserves
        /\ SumFunction([e EXCEPT ![a] = d.eth]) = SumFunction(e) - e[a] + d.eth
    BY <1>2, OneTermChanges
  <1> QED BY <1>1, <1>2, <1>4, <1>5

(* The books stay right when the global ledger moves by what the curve's   *)
(* reserve moves by, and the ETH the curve gains is lost outside.          *)
LEMMA OneCurveBooks ==
    ASSUME Inv, Books, NEW a \in isCurve, NEW d \in CurveState,
           curve' = [curve EXCEPT ![a] = d],
           globalCurveEth' = globalCurveEth - curve[a].realEthReserves + d.realEthReserves,
           EthOutside' = EthOutside + curve[a].eth - d.eth,
           vaultEth' = SumFunction(balanceOf')
    PROVE  Books'
  <1>1. CurvesOK /\ IsFiniteSet(isCurve)
    BY InvParts DEF Books
  <1>2. /\ isCurve' = isCurve
        /\ RealEth' = RealEth - curve[a].realEthReserves + d.realEthReserves
        /\ HeldEth' = HeldEth - curve[a].eth + d.eth
    BY <1>1, OneCurveSums
  <1>3. /\ HeldEth \in Int /\ EthOutside \in Int /\ curve[a].eth \in Int /\ d.eth \in Int
    BY <1>1, SumsTyped, CurveOf DEF Inv, TypeOK, EthOutside, CurveState
  <1>4. EthOutside' + HeldEth' = InitialEth
    BY <1>2, <1>3, InitialEthAssumption DEF Books
  <1> QED BY <1>1, <1>2, <1>4 DEF Books

LEMMA InitBooks == Init => Books
  <1> SUFFICES ASSUME Init PROVE Books
    OBVIOUS
  <1>1. isCurve = {} /\ IsFiniteSet(isCurve)
    BY FS_EmptySet DEF Init, BondingCurveInit, isCurve
  <1>2. RealEth = 0 /\ HeldEth = 0
    <2> DEFINE f == [a \in isCurve |-> curve[a].realEthReserves]
               e == [a \in isCurve |-> curve[a].eth]
    <2>1. DOMAIN f = {} /\ DOMAIN e = {}
      BY <1>1
    <2>2. RealEth = SumFunctionOnSet(f, DOMAIN f) /\ HeldEth = SumFunctionOnSet(e, DOMAIN e)
      BY DEF RealEth, HeldEth, SumFunction
    <2> HIDE DEF f, e
    <2> QED BY <2>1, <2>2, SumEmpty
  <1>3. SumFunction(balanceOf) = 0
    <2>1. /\ DOMAIN balanceOf = Creator /\ \A k \in Creator : balanceOf[k] = 0
          /\ IsFiniteSet(Creator)
      BY CreatorAssumption DEF Init, VaultInit
    <2>2. SumFunctionOnSet(balanceOf, Creator) = 0
      BY <2>1, SumOfZeros
    <2> QED BY <2>1, <2>2 DEF SumFunction
  <1>4. EthOutside = InitialEth
    BY InitialEthAssumption DEF Init, VaultInit, BondingCurveInit, EthOutside
  <1> QED BY <1>1, <1>2, <1>3, <1>4, InitialEthAssumption
          DEF Books, Init, FactoryInit, VaultInit

LEMMA BuyBooks ==
    ASSUME Inv, Books, NEW a \in isCurve, NEW grossIn \in 1 .. wallet, Buy(a, grossIn)
    PROVE  Books'
  <1> DEFINE c == curve[a]
             q == BuySplit(c, grossIn)
             d == AfterBuy(c, grossIn)
  <1>1. c \in CurveState /\ CurveInvariant(c) /\ c.phase = "Trading"
    BY InvParts, CurveOf DEF Buy, CurveBuy, CanBuy
  <1>2. grossIn \in Nat /\ grossIn > 0
    BY DEF Inv, TypeOK
  <1>3. q.net \in Nat /\ q.refund \in Nat
    BY <1>1, <1>2, BuySplitIsExact DEF SplitOf
  <1>4. d \in CurveState
    BY <1>1, <1>2, AfterBuyInvariant
  <1>5. d.realEthReserves = c.realEthReserves + q.net /\ d.eth = c.eth + grossIn - q.refund
    <2> HIDE DEF c, q
    <2>1. c.realEthReserves + BuySplit(c, grossIn).net = c.realEthReserves + q.net
      BY DEF q
    <2> QED BY <1>1, <2>1 DEF AfterBuy, CurveState, q
  <1>6. /\ curve' = [curve EXCEPT ![a] = d]
        /\ globalCurveEth' = globalCurveEth + q.net
        /\ wallet' = wallet - grossIn + q.refund
        /\ UNCHANGED <<vaultEth, balanceOf, treasuryEth, migratorEth>>
    BY DEF Buy, CurveBuy, EthRecorded, vaultVars
  <1>7. c.realEthReserves \in Int /\ c.eth \in Int
    BY <1>1 DEF CurveState
  <1> HIDE DEF c, q, d
  <1>8. globalCurveEth' = globalCurveEth - c.realEthReserves + d.realEthReserves
    BY <1>3, <1>5, <1>6, <1>7 DEF Inv, TypeOK
  <1>9. EthOutside' = EthOutside + c.eth - d.eth
    BY <1>2, <1>3, <1>5, <1>6, <1>7 DEF Inv, TypeOK, EthOutside
  <1>10. vaultEth' = SumFunction(balanceOf')
    BY <1>6 DEF Books
  <1> QED BY <1>4, <1>6, <1>8, <1>9, <1>10, OneCurveBooks DEF c

LEMMA SellBooks ==
    ASSUME Inv, Books, NEW a \in isCurve, NEW tokenAmount \in 1 .. curve[a].held,
           Sell(a, tokenAmount)
    PROVE  Books'
  <1> DEFINE c == curve[a]
             s == SellSplit(c, tokenAmount)
             d == AfterSell(c, tokenAmount)
  <1>1. c \in CurveState /\ CurveInvariant(c) /\ c.phase = "Trading"
    BY InvParts, CurveOf DEF Sell, CurveSell
  <1>2. tokenAmount \in Nat /\ tokenAmount <= c.held
    BY <1>1 DEF CurveState
  <1>3. s.ethOutGross \in Nat /\ s.ethOut \in Nat /\ s.ethOutGross <= c.realEthReserves
    BY <1>1, <1>2, AnySaleCovered DEF SellCovered
  <1>4. d \in CurveState
    BY <1>1, <1>2, AfterSellInvariant
  <1>5. d.realEthReserves = c.realEthReserves - s.ethOutGross /\ d.eth = c.eth - s.ethOut
    <2> HIDE DEF c
    <2> QED BY <1>1 DEF AfterSell, CurveState
  <1>6. /\ curve' = [curve EXCEPT ![a] = d]
        /\ globalCurveEth' = EthReleased(s.ethOutGross)
        /\ wallet' = wallet + s.ethOut
        /\ UNCHANGED <<vaultEth, balanceOf, treasuryEth, migratorEth>>
    BY DEF Sell, CurveSell, vaultVars
  <1>7. /\ c.realEthReserves \in Int /\ c.eth \in Int /\ globalCurveEth \in Nat
        /\ c.realEthReserves <= globalCurveEth
    BY <1>1, InvParts, SumsTyped DEF CurveState, Books
  <1> HIDE DEF c, s, d
  <1>8. globalCurveEth' = globalCurveEth - c.realEthReserves + d.realEthReserves
    BY <1>3, <1>5, <1>6, <1>7 DEF EthReleased
  <1>9. EthOutside' = EthOutside + c.eth - d.eth
    BY <1>3, <1>5, <1>6, <1>7 DEF Inv, TypeOK, EthOutside
  <1>10. vaultEth' = SumFunction(balanceOf')
    BY <1>6 DEF Books
  <1> QED BY <1>4, <1>6, <1>8, <1>9, <1>10, OneCurveBooks DEF c

LEMMA SweepFeesBooks ==
    ASSUME Inv, Books, NEW a \in isCurve, SweepFees(a), Inv'
    PROVE  Books'
  <1> DEFINE c == curve[a]
             d == AfterSweepFees(c)
  <1>1. c \in CurveState
    BY InvParts, CurveOf
  <1>2. d.realEthReserves = c.realEthReserves /\ d.eth = c.eth - c.accruedFees
    <2> HIDE DEF c
    <2> QED BY <1>1 DEF AfterSweepFees, CurveState
  <1>3. /\ curve' = [curve EXCEPT ![a] = d] /\ globalCurveEth' = globalCurveEth
        /\ treasuryEth' = treasuryEth + c.accruedFees
        /\ UNCHANGED <<vaultEth, balanceOf, wallet, migratorEth>>
    BY DEF SweepFees, factoryVars, vaultVars
  <1>4. d \in CurveState
    BY <1>3 DEF Inv, TypeOK, isCurve
  <1>5. c.realEthReserves \in Int /\ c.eth \in Int /\ c.accruedFees \in Int
    BY <1>1 DEF CurveState
  <1> HIDE DEF c, d
  <1>6. globalCurveEth' = globalCurveEth - c.realEthReserves + d.realEthReserves
    BY <1>2, <1>3, <1>5 DEF Inv, TypeOK
  <1>7. EthOutside' = EthOutside + c.eth - d.eth
    BY <1>2, <1>3, <1>5 DEF Inv, TypeOK, EthOutside
  <1>8. vaultEth' = SumFunction(balanceOf')
    BY <1>3 DEF Books
  <1> QED BY <1>3, <1>4, <1>6, <1>7, <1>8, OneCurveBooks DEF c

(* The vault's ledger moves with what the curve deposits. *)
LEMMA SweepCreatorFeesBooks ==
    ASSUME Inv, Books, NEW a \in isCurve, SweepCreatorFees(a), Inv'
    PROVE  Books'
  <1> DEFINE c == curve[a]
             d == AfterSweepCreatorFees(c)
             k == c.creator
  <1>1. c \in CurveState
    BY InvParts, CurveOf
  <1>2. d.realEthReserves = c.realEthReserves /\ d.eth = c.eth - c.accruedCreatorFees
    <2> HIDE DEF c
    <2> QED BY <1>1 DEF AfterSweepCreatorFees, CurveState
  <1>3. /\ curve' = [curve EXCEPT ![a] = d] /\ globalCurveEth' = globalCurveEth
        /\ vaultEth' = vaultEth + c.accruedCreatorFees
        /\ balanceOf' = [balanceOf EXCEPT ![k] = balanceOf[k] + c.accruedCreatorFees]
        /\ UNCHANGED <<wallet, treasuryEth, migratorEth>>
    BY DEF SweepCreatorFees, Deposit, factoryVars
  <1>4. d \in CurveState
    BY <1>3 DEF Inv, TypeOK, isCurve
  <1>5. /\ c.realEthReserves \in Int /\ c.eth \in Int /\ c.accruedCreatorFees \in Int
        /\ k \in Creator /\ balanceOf \in [Creator -> Int] /\ balanceOf[k] \in Int
        /\ vaultEth \in Int
    BY <1>1 DEF CurveState, Inv, TypeOK
  <1> HIDE DEF c, d, k
  <1>6. globalCurveEth' = globalCurveEth - c.realEthReserves + d.realEthReserves
    BY <1>2, <1>3, <1>5 DEF Inv, TypeOK
  <1>7. EthOutside' = EthOutside + c.eth - d.eth
    BY <1>2, <1>3, <1>5 DEF Inv, TypeOK, EthOutside
  <1>8. vaultEth' = SumFunction(balanceOf')
    <2> DEFINE v == balanceOf[k] + c.accruedCreatorFees
    <2>1. IsFiniteSet(Creator) /\ v \in Int
      BY <1>5, CreatorAssumption
    <2>2. vaultEth' = vaultEth - balanceOf[k] + v
      BY <1>3, <1>5
    <2>3. balanceOf' = [balanceOf EXCEPT ![k] = v]
      BY <1>3
    <2> HIDE DEF v
    <2>4. SumFunction([balanceOf EXCEPT ![k] = v]) = SumFunction(balanceOf) - balanceOf[k] + v
      BY <1>5, <2>1, OneTermChanges
    <2> QED BY <2>2, <2>3, <2>4 DEF Books
  <1> QED BY <1>3, <1>4, <1>6, <1>7, <1>8, OneCurveBooks DEF c

LEMMA GraduateBooks ==
    ASSUME Inv, Books, NEW a \in isCurve, Graduate(a), Inv'
    PROVE  Books'
  <1> DEFINE c == curve[a]
             d == AfterGraduate(c)
  <1>1. c \in CurveState /\ CurveInvariant(c)
    BY InvParts, CurveOf
  <1>2. d.realEthReserves = 0 /\ d.eth = c.accruedFees + c.accruedCreatorFees
    <2> HIDE DEF c
    <2> QED BY <1>1 DEF AfterGraduate, CurveState
  <1>3. /\ curve' = [curve EXCEPT ![a] = d]
        /\ globalCurveEth' = EthReleased(c.realEthReserves)
        /\ wallet' = wallet + c.CALLER_REWARD
        /\ migratorEth' = migratorEth + EthForMigrator(c)
        /\ UNCHANGED <<vaultEth, balanceOf, treasuryEth>>
    BY DEF Graduate, vaultVars
  <1>4. d \in CurveState
    BY <1>3 DEF Inv, TypeOK, isCurve
  <1>5. /\ c.realEthReserves \in Nat /\ c.eth \in Int /\ c.CALLER_REWARD \in Int
        /\ c.accruedFees \in Int /\ c.accruedCreatorFees \in Int /\ globalCurveEth \in Nat
        /\ c.realEthReserves <= globalCurveEth
    BY <1>1, InvParts, SumsTyped DEF CurveState, Books, LedgersOK
  <1>6. EthForMigrator(c) = c.eth - c.CALLER_REWARD - c.accruedFees - c.accruedCreatorFees
    BY DEF EthForMigrator
  <1> HIDE DEF c, d
  <1>7. globalCurveEth' = globalCurveEth - c.realEthReserves + d.realEthReserves
    BY <1>2, <1>3, <1>5 DEF EthReleased
  <1>8. EthOutside' = EthOutside + c.eth - d.eth
    BY <1>2, <1>3, <1>5, <1>6 DEF Inv, TypeOK, EthOutside
  <1>9. vaultEth' = SumFunction(balanceOf')
    BY <1>3 DEF Books
  <1> QED BY <1>3, <1>4, <1>7, <1>8, <1>9, OneCurveBooks DEF c

LEMMA DonateEthBooks ==
    ASSUME Inv, Books, NEW a \in isCurve, NEW amount \in 1 .. wallet, DonateEth(a, amount), Inv'
    PROVE  Books'
  <1> DEFINE c == curve[a]
             d == AfterEthDonation(c, amount)
  <1>1. c \in CurveState
    BY InvParts, CurveOf
  <1>2. d.realEthReserves = c.realEthReserves /\ d.eth = c.eth + amount
    <2> HIDE DEF c
    <2> QED BY <1>1 DEF AfterEthDonation, CurveState
  <1>3. /\ curve' = [curve EXCEPT ![a] = d] /\ globalCurveEth' = globalCurveEth
        /\ wallet' = wallet - amount
        /\ UNCHANGED <<vaultEth, balanceOf, treasuryEth, migratorEth>>
    BY DEF DonateEth, factoryVars, vaultVars
  <1>4. d \in CurveState
    BY <1>3 DEF Inv, TypeOK, isCurve
  <1>5. c.realEthReserves \in Int /\ c.eth \in Int
    BY <1>1 DEF CurveState
  <1> HIDE DEF c, d
  <1>6. globalCurveEth' = globalCurveEth - c.realEthReserves + d.realEthReserves
    BY <1>2, <1>3, <1>5 DEF Inv, TypeOK
  <1>7. EthOutside' = EthOutside + c.eth - d.eth
    BY <1>2, <1>3, <1>5 DEF Inv, TypeOK, EthOutside
  <1>8. vaultEth' = SumFunction(balanceOf')
    BY <1>3 DEF Books
  <1> QED BY <1>3, <1>4, <1>6, <1>7, <1>8, OneCurveBooks DEF c

(* Steps on a curve that move no ETH. *)
LEMMA NoEthMovesBooks ==
    ASSUME Inv, Books, Inv', NEW a \in isCurve, NEW d, curve' = [curve EXCEPT ![a] = d],
           d.realEthReserves = curve[a].realEthReserves, d.eth = curve[a].eth,
           UNCHANGED <<globalCurveEth, vaultEth, balanceOf, wallet, treasuryEth, migratorEth>>
    PROVE  Books'
  <1>1. d \in CurveState
    BY DEF Inv, TypeOK, isCurve
  <1>2. curve[a].realEthReserves \in Int /\ curve[a].eth \in Int
    BY InvParts, CurveOf DEF CurveState
  <1>3. globalCurveEth' = globalCurveEth - curve[a].realEthReserves + d.realEthReserves
    BY <1>2 DEF Inv, TypeOK
  <1>4. EthOutside' = EthOutside + curve[a].eth - d.eth
    BY <1>2 DEF Inv, TypeOK, EthOutside
  <1>5. vaultEth' = SumFunction(balanceOf')
    BY DEF Books
  <1> QED BY <1>1, <1>3, <1>4, <1>5, OneCurveBooks

(* A token that opens brings one more term to both sums. *)
LEMMA CreateTokenBooks ==
    ASSUME Inv, Books, NEW a \in Curve, NEW creator \in Creator, NEW value \in 0 .. wallet,
           CreateToken(a, creator, value)
    PROVE  Books'
  <1> DEFINE fresh == NewCurve(creator)
             initialBuy == value - config.creationFee
             q == BuySplit(fresh, initialBuy)
             net == IF initialBuy = 0 THEN 0 ELSE q.net
             refund == IF initialBuy = 0 THEN 0 ELSE q.refund
             d == IF initialBuy = 0 THEN fresh ELSE AfterBuy(fresh, initialBuy)
             f == [x \in isCurve |-> curve[x].realEthReserves]
             e == [x \in isCurve |-> curve[x].eth]
  <1>1. CurvesOK /\ ConfigOK /\ LedgersOK
    BY InvParts
  <1>2. /\ fresh \in CurveState /\ CurveInvariant(fresh) /\ fresh.phase = "Trading"
        /\ fresh.realEthReserves = 0 /\ fresh.eth = 0
    BY <1>1, NewCurveInvariant DEF ConfigOK, NewCurve
  <1>3. initialBuy \in Nat /\ config.creationFee \in Nat /\ value \in Nat
    BY <1>1 DEF CreateToken, ConfigOK, FactoryConfig, LedgersOK
  <1>4. /\ a \notin isCurve
        /\ curve' = [x \in isCurve \cup {a} |-> IF x = a THEN d ELSE curve[x]]
        /\ globalCurveEth' = globalCurveEth + net
        /\ wallet' = wallet - value + refund
        /\ treasuryEth' = treasuryEth + config.creationFee
        /\ UNCHANGED <<vaultEth, balanceOf, migratorEth>>
    <2>1. /\ globalCurveEth' = IF initialBuy = 0 THEN globalCurveEth ELSE globalCurveEth + q.net
          /\ globalCurveEth \in Nat
      BY <1>1 DEF CreateToken, EthRecorded, LedgersOK
    <2> QED BY <2>1 DEF CreateToken, vaultVars
  <1>5. value = initialBuy + config.creationFee
    BY <1>3
  <1> HIDE DEF fresh, initialBuy
  <1>6. /\ d.realEthReserves = net /\ d.eth = initialBuy - refund
        /\ net \in Nat /\ refund \in Nat /\ d.realEthReserves \in Int /\ d.eth \in Int
    <2>1. CASE initialBuy = 0
      BY <1>2, <2>1
    <2>2. CASE initialBuy # 0
      <3>1. q.net \in Nat /\ q.refund \in Nat
        BY <1>2, <1>3, <2>2, BuySplitIsExact DEF SplitOf
      <3>2. /\ AfterBuy(fresh, initialBuy).realEthReserves = 0 + q.net
            /\ AfterBuy(fresh, initialBuy).eth = 0 + initialBuy - q.refund
        BY <1>2 DEF AfterBuy, CurveState
      <3> QED BY <1>3, <2>2, <3>1, <3>2
    <2> QED BY <2>1, <2>2
  <1> HIDE DEF net, refund, d
  <1>7. isCurve' = isCurve \cup {a} /\ IsFiniteSet(isCurve)'
    BY <1>4, FS_AddElement DEF isCurve, Books
  <1>8. RealEth' = RealEth + net /\ HeldEth' = HeldEth + (initialBuy - refund)
    <2>1. /\ f \in [isCurve -> Int] /\ e \in [isCurve -> Int]
          /\ \A x \in isCurve : f[x] = curve[x].realEthReserves /\ e[x] = curve[x].eth
      BY <1>1 DEF CurvesOK, CurveState
    <2>2. RealEth = SumFunction(f) /\ HeldEth = SumFunction(e)
      BY DEF RealEth, HeldEth
    <2> HIDE DEF f, e
    <2> DEFINE fNew == [x \in isCurve' |-> curve'[x].realEthReserves]
               eNew == [x \in isCurve' |-> curve'[x].eth]
    <2>3. /\ fNew \in [isCurve \cup {a} -> Int] /\ eNew \in [isCurve \cup {a} -> Int]
          /\ \A x \in isCurve : fNew[x] = f[x] /\ eNew[x] = e[x]
          /\ fNew[a] = d.realEthReserves /\ eNew[a] = d.eth
      <3>1. /\ curve'[a] = d
            /\ \A x \in isCurve : curve'[x] = curve[x]
        BY <1>4
      <3>2. \A x \in isCurve \cup {a} : curve'[x].realEthReserves \in Int /\ curve'[x].eth \in Int
        BY <1>1, <1>6, <3>1 DEF CurvesOK, CurveState
      <3> QED BY <1>7, <2>1, <3>1, <3>2
    <2>4. RealEth' = SumFunction(fNew) /\ HeldEth' = SumFunction(eNew)
      BY DEF RealEth, HeldEth
    <2> HIDE DEF fNew, eNew
    <2>5. a \notin isCurve /\ IsFiniteSet(isCurve)
      BY <1>4 DEF Books
    <2>6. SumFunction(fNew) = SumFunction(f) + fNew[a]
      <3>1. f \in [isCurve -> Int] /\ fNew \in [isCurve \cup {a} -> Int]
        BY <2>1, <2>3
      <3>2. \A x \in isCurve : fNew[x] = f[x]
        BY <2>3
      <3> QED BY <2>5, <3>1, <3>2, OneTermMore
    <2>7. SumFunction(eNew) = SumFunction(e) + eNew[a]
      <3>1. e \in [isCurve -> Int] /\ eNew \in [isCurve \cup {a} -> Int]
        BY <2>1, <2>3
      <3>2. \A x \in isCurve : eNew[x] = e[x]
        BY <2>3
      <3> QED BY <2>5, <3>1, <3>2, OneTermMore
    <2> QED BY <1>6, <2>2, <2>3, <2>4, <2>6, <2>7
  <1>9. globalCurveEth' = RealEth'
    BY <1>4, <1>8 DEF Books
  <1>10. EthOutside' + HeldEth' = InitialEth
    <2>1. /\ EthOutside \in Int /\ HeldEth \in Int /\ wallet \in Int /\ treasuryEth \in Int
          /\ vaultEth \in Int /\ migratorEth \in Int
      BY <1>1, SumsTyped DEF Books, EthOutside, LedgersOK
    <2>2. EthOutside' = EthOutside - initialBuy + refund
      BY <1>3, <1>4, <1>5, <1>6, <2>1 DEF EthOutside
    <2> QED BY <1>3, <1>6, <1>8, <2>1, <2>2, InitialEthAssumption DEF Books
  <1> QED BY <1>4, <1>7, <1>9, <1>10 DEF Books

(* A claim empties one balance and the vault by the same amount. *)
LEMMA ClaimBooks ==
    ASSUME Inv, Books, NEW creator \in Creator, ClaimCreatorFees(creator)
    PROVE  Books'
  <1>1. /\ vaultEth' = vaultEth - balanceOf[creator]
        /\ balanceOf' = [balanceOf EXCEPT ![creator] = 0]
        /\ wallet' = wallet + balanceOf[creator]
        /\ UNCHANGED <<curve, globalCurveEth, treasuryEth, migratorEth>>
    BY DEF ClaimCreatorFees, Claim, factoryVars
  <1>2. /\ vaultEth \in Int /\ balanceOf \in [Creator -> Int] /\ balanceOf[creator] \in Int
        /\ IsFiniteSet(Creator)
    BY CreatorAssumption DEF Inv, TypeOK
  <1> DEFINE v == 0
  <1>3. v \in Int /\ balanceOf' = [balanceOf EXCEPT ![creator] = v]
    BY <1>1
  <1>4. vaultEth' = SumFunction(balanceOf')
    <2>1. vaultEth' = vaultEth - balanceOf[creator] + v
      BY <1>1, <1>2
    <2> HIDE DEF v
    <2>2. SumFunction([balanceOf EXCEPT ![creator] = v])
            = SumFunction(balanceOf) - balanceOf[creator] + v
      BY <1>2, <1>3, OneTermChanges
    <2> QED BY <1>3, <2>1, <2>2 DEF Books
  <1>5. UNCHANGED <<isCurve, RealEth, HeldEth>>
    BY <1>1 DEF isCurve, RealEth, HeldEth
  <1>6. EthOutside' = EthOutside
    BY <1>1, <1>2 DEF EthOutside, Inv, TypeOK
  <1> QED BY <1>1, <1>4, <1>5, <1>6 DEF Books

(* Every step keeps the books right. *)
LEMMA NextBooks == Inv /\ Inv' /\ Books /\ [Next]_vars => Books'
  <1> SUFFICES ASSUME Inv, Inv', Books, [Next]_vars PROVE Books'
    OBVIOUS
  <1>1. ASSUME NEW a \in Curve, NEW creator \in Creator, NEW value \in 0 .. wallet,
               CreateToken(a, creator, value)
        PROVE  Books'
    BY <1>1, CreateTokenBooks
  <1>2. ASSUME NEW a \in isCurve, NEW grossIn \in 1 .. wallet, Buy(a, grossIn) PROVE Books'
    BY <1>2, BuyBooks
  <1>3. ASSUME NEW a \in isCurve, NEW tokenAmount \in 1 .. curve[a].held, Sell(a, tokenAmount)
        PROVE  Books'
    BY <1>3, SellBooks
  <1>4. ASSUME NEW a \in isCurve, SweepFees(a) PROVE Books'
    BY <1>4, SweepFeesBooks
  <1>5. ASSUME NEW a \in isCurve, SweepCreatorFees(a) PROVE Books'
    BY <1>5, SweepCreatorFeesBooks
  <1>6. ASSUME NEW a \in isCurve, Graduate(a) PROVE Books'
    BY <1>6, GraduateBooks
  <1>7. ASSUME NEW a \in isCurve, NEW amount \in 1 .. wallet, DonateEth(a, amount) PROVE Books'
    BY <1>7, DonateEthBooks
  <1>8. ASSUME NEW a \in isCurve, NEW amount \in 1 .. curve[a].held, DonateTokens(a, amount)
        PROVE  Books'
    <2> DEFINE d == AfterTokenDonation(curve[a], amount)
    <2>1. curve' = [curve EXCEPT ![a] = d]
      BY <1>8 DEF DonateTokens
    <2>2. d.realEthReserves = curve[a].realEthReserves /\ d.eth = curve[a].eth
      BY InvParts, CurveOf DEF AfterTokenDonation, CurveState
    <2> HIDE DEF d
    <2> QED BY <1>8, <2>1, <2>2, NoEthMovesBooks DEF DonateTokens, factoryVars, vaultVars
  <1>9. ASSUME NEW a \in isCurve, EarlyWindowEnds(a) PROVE Books'
    <2> DEFINE d == [curve[a] EXCEPT !.inEarlyWindow = FALSE]
    <2>1. curve' = [curve EXCEPT ![a] = d]
      BY <1>9 DEF EarlyWindowEnds
    <2>2. d.realEthReserves = curve[a].realEthReserves /\ d.eth = curve[a].eth
      BY InvParts, CurveOf DEF CurveState
    <2> HIDE DEF d
    <2> QED BY <1>9, <2>1, <2>2, NoEthMovesBooks DEF EarlyWindowEnds, factoryVars, vaultVars
  <1>10. ASSUME NEW creator \in Creator, ClaimCreatorFees(creator) PROVE Books'
    BY <1>10, ClaimBooks
  <1>11. CASE OwnerStep \/ UNCHANGED vars
    <2>1. UNCHANGED <<globalCurveEth, vaultEth, balanceOf, curve, wallet, treasuryEth,
                      migratorEth>>
      BY <1>11 DEF OwnerStep, vars, factoryVars, vaultVars, curveVars
    <2> QED BY <2>1 DEF Books, RealEth, HeldEth, EthOutside, isCurve
  <1> QED BY <1>1, <1>2, <1>3, <1>4, <1>5, <1>6, <1>7, <1>8, <1>9, <1>10, <1>11 DEF Next

THEOREM BooksHold == Spec => []Books
  BY InitBooks, NextBooks, InvariantHolds, PTL DEF Spec

(* The ledgers kept by deltas are the sums they stand for, whatever the    *)
(* number of curves and creators: the floor at zero of recordEthDelta      *)
(* never hides a mismatch.                                                 *)
THEOREM LedgersAreExact == Spec => []LedgersExact
  BY BooksMean, BooksHold, PTL

(* No wei is created or lost by any path. *)
THEOREM EthIsConserved == Spec => []EthConserved
  BY BooksMean, BooksHold, PTL

-----------------------------------------------------------------------------
(* What a step may never do *)

(* What a step does to the curve it is about, as far as reserves and phase *)
(* go: it opens the curve, trades on it, graduates it, or leaves both.     *)
Opens(d) == d \in CurveState /\ CurveInvariant(d) /\ d.phase # "Graduated"

Buys(c, d)  == c.phase = "Trading" /\ \E grossIn \in Nat \ {0} : d = AfterBuy(c, grossIn)
Sells(c, d) == c.phase = "Trading" /\ \E tokenAmount \in 1 .. c.held : d = AfterSell(c, tokenAmount)

Graduates(c, d) == c.phase = "ReadyToGraduate" /\ d = AfterGraduate(c)

SameReserves(c, d) ==
    /\ d.phase = c.phase
    /\ d.realEthReserves = c.realEthReserves /\ d.realTokenReserves = c.realTokenReserves
    /\ d.virtualEthReserves = c.virtualEthReserves
    /\ d.virtualTokenReserves = c.virtualTokenReserves

MovesTo(c, d) == Buys(c, d) \/ Sells(c, d) \/ Graduates(c, d) \/ SameReserves(c, d)

OpensOne ==
    \E a \in Curve \ isCurve, d \in CurveState :
        /\ Opens(d)
        /\ curve' = [x \in isCurve \cup {a} |-> IF x = a THEN d ELSE curve[x]]

MovesOne ==
    \E a \in isCurve : \E d : curve' = [curve EXCEPT ![a] = d] /\ MovesTo(curve[a], d)

LEMMA CreateTokenOpens ==
    ASSUME Inv, NEW a \in Curve, NEW creator \in Creator, NEW value \in 0 .. wallet,
           CreateToken(a, creator, value)
    PROVE  OpensOne
  <1> DEFINE fresh == NewCurve(creator)
             initialBuy == value - config.creationFee
             d == IF initialBuy = 0 THEN fresh ELSE AfterBuy(fresh, initialBuy)
  <1>1. CurvesOK /\ ConfigOK /\ LedgersOK
    BY InvParts
  <1>2. fresh \in CurveState /\ CurveInvariant(fresh) /\ fresh.phase = "Trading"
    BY <1>1, NewCurveInvariant DEF ConfigOK
  <1>3. initialBuy \in Nat
    BY <1>1 DEF CreateToken, ConfigOK, FactoryConfig, LedgersOK
  <1>4. curve' = [x \in isCurve \cup {a} |-> IF x = a THEN d ELSE curve[x]] /\ a \notin isCurve
    BY DEF CreateToken
  <1> HIDE DEF fresh, initialBuy
  <1>5. Opens(d)
    <2>1. CASE initialBuy = 0
      BY <1>2, <2>1 DEF Opens
    <2>2. CASE initialBuy # 0
      <3>1. AfterBuy(fresh, initialBuy) \in CurveState /\ CurveInvariant(AfterBuy(fresh, initialBuy))
        BY <1>2, <1>3, <2>2, AfterBuyInvariant
      <3>2. AfterBuy(fresh, initialBuy).phase # "Graduated"
        BY <1>2 DEF AfterBuy, CurveState
      <3> QED BY <2>2, <3>1, <3>2 DEF Opens
    <2> QED BY <2>1, <2>2
  <1> HIDE DEF d
  <1> QED BY <1>4, <1>5 DEF OpensOne, Opens

(* Every step opens one curve, moves one curve, or touches none. *)
LEMMA StepOfCurves ==
    ASSUME Inv, [Next]_vars
    PROVE  OpensOne \/ MovesOne \/ curve' = curve
  <1>0. \A x \in isCurve : curve[x] \in CurveState
    BY DEF Inv, TypeOK
  <1> DEFINE Goal == OpensOne \/ MovesOne \/ curve' = curve
  <1>1. ASSUME NEW b \in isCurve, NEW d, curve' = [curve EXCEPT ![b] = d], MovesTo(curve[b], d)
        PROVE  Goal
    BY <1>1 DEF MovesOne
  <1>3. ASSUME NEW b \in Curve, NEW creator \in Creator, NEW value \in 0 .. wallet,
               CreateToken(b, creator, value)
        PROVE  Goal
    BY <1>3, CreateTokenOpens
  <1>4. ASSUME NEW b \in isCurve, NEW grossIn \in 1 .. wallet, Buy(b, grossIn) PROVE Goal
    <2>1. grossIn \in Nat \ {0}
      BY DEF Inv, TypeOK
    <2>2. MovesTo(curve[b], AfterBuy(curve[b], grossIn))
      BY <1>4, <2>1 DEF Buy, CurveBuy, CanBuy, MovesTo, Buys
    <2> QED BY <1>1, <1>4, <2>2 DEF Buy, CurveBuy
  <1>5. ASSUME NEW b \in isCurve, NEW tokenAmount \in 1 .. curve[b].held, Sell(b, tokenAmount)
        PROVE  Goal
    <2>1. MovesTo(curve[b], AfterSell(curve[b], tokenAmount))
      BY <1>5 DEF Sell, CurveSell, MovesTo, Sells
    <2> QED BY <1>1, <1>5, <2>1 DEF Sell, CurveSell
  <1>6. ASSUME NEW b \in isCurve, SweepFees(b) PROVE Goal
    <2>1. MovesTo(curve[b], AfterSweepFees(curve[b]))
      BY <1>0 DEF MovesTo, SameReserves, AfterSweepFees, CurveState
    <2> QED BY <1>1, <1>6, <2>1 DEF SweepFees
  <1>7. ASSUME NEW b \in isCurve, SweepCreatorFees(b) PROVE Goal
    <2>1. MovesTo(curve[b], AfterSweepCreatorFees(curve[b]))
      BY <1>0 DEF MovesTo, SameReserves, AfterSweepCreatorFees, CurveState
    <2> QED BY <1>1, <1>7, <2>1 DEF SweepCreatorFees
  <1>8. ASSUME NEW b \in isCurve, Graduate(b) PROVE Goal
    <2>1. MovesTo(curve[b], AfterGraduate(curve[b]))
      BY <1>8 DEF Graduate, MovesTo, Graduates
    <2> QED BY <1>1, <1>8, <2>1 DEF Graduate
  <1>9. ASSUME NEW b \in isCurve, NEW amount \in 1 .. wallet, DonateEth(b, amount) PROVE Goal
    <2>1. MovesTo(curve[b], AfterEthDonation(curve[b], amount))
      BY <1>0 DEF MovesTo, SameReserves, AfterEthDonation, CurveState
    <2> QED BY <1>1, <1>9, <2>1 DEF DonateEth
  <1>10. ASSUME NEW b \in isCurve, NEW amount \in 1 .. curve[b].held, DonateTokens(b, amount)
         PROVE  Goal
    <2>1. MovesTo(curve[b], AfterTokenDonation(curve[b], amount))
      BY <1>0 DEF MovesTo, SameReserves, AfterTokenDonation, CurveState
    <2> QED BY <1>1, <1>10, <2>1 DEF DonateTokens
  <1>11. ASSUME NEW b \in isCurve, EarlyWindowEnds(b) PROVE Goal
    <2> DEFINE d == [curve[b] EXCEPT !.inEarlyWindow = FALSE]
    <2>1. MovesTo(curve[b], d)
      BY <1>0 DEF MovesTo, SameReserves, CurveState
    <2>2. curve' = [curve EXCEPT ![b] = d]
      BY <1>11 DEF EarlyWindowEnds
    <2> QED BY <1>1, <2>1, <2>2
  <1>12. ASSUME NEW creator \in Creator, ClaimCreatorFees(creator) PROVE Goal
    BY <1>12 DEF ClaimCreatorFees
  <1>13. ASSUME OwnerStep \/ UNCHANGED vars PROVE Goal
    BY <1>13 DEF OwnerStep, vars, curveVars
  <1> QED BY <1>3, <1>4, <1>5, <1>6, <1>7, <1>8, <1>9, <1>10, <1>11, <1>12, <1>13 DEF Next

(* A deployed curve stays deployed and moves, or is as it was. *)
LEMMA StepOfCurve ==
    ASSUME Inv, [Next]_vars, NEW a \in isCurve
    PROVE  a \in isCurve' /\ MovesTo(curve[a], curve'[a])
  <1>0. DOMAIN curve = isCurve /\ SameReserves(curve[a], curve[a])
    BY DEF isCurve, SameReserves
  <1>1. CASE OpensOne
    <2>1. a \in isCurve' /\ curve'[a] = curve[a]
      BY <1>1 DEF OpensOne, isCurve
    <2> QED BY <1>0, <2>1 DEF MovesTo
  <1>2. CASE MovesOne
    <2>1. PICK b \in isCurve : \E d : curve' = [curve EXCEPT ![b] = d] /\ MovesTo(curve[b], d)
      BY <1>2 DEF MovesOne
    <2>2. PICK d : curve' = [curve EXCEPT ![b] = d] /\ MovesTo(curve[b], d)
      BY <2>1
    <2>3. a \in isCurve' /\ curve'[a] = IF a = b THEN d ELSE curve[a]
      BY <1>0, <2>2 DEF isCurve
    <2> QED BY <1>0, <2>2, <2>3 DEF MovesTo
  <1>3. CASE curve' = curve
    BY <1>0, <1>3 DEF MovesTo, isCurve
  <1> QED BY <1>1, <1>2, <1>3, StepOfCurves

(* The product of the virtual reserves never falls: rounding goes the      *)
(* curve's way in both directions, and nothing but trades moves them.      *)
THEOREM ProductNeverFalls == Spec => KNeverDecreases
  <1>1. ASSUME Inv, [Next]_vars, NEW a \in isCurve
        PROVE  curve'[a].virtualEthReserves * curve'[a].virtualTokenReserves
                 >= curve[a].virtualEthReserves * curve[a].virtualTokenReserves
    <2> DEFINE c == curve[a]
               d == curve'[a]
    <2>1. MovesTo(c, d)
      BY <1>1, StepOfCurve
    <2>2. c \in CurveState /\ CurveInvariant(c)
      BY <1>1, InvParts, CurveOf
    <2>3. c.virtualEthReserves \in Nat /\ c.virtualTokenReserves \in Nat
      BY <2>2 DEF CurveState
    <2> HIDE DEF c, d
    <2>4. CASE Buys(c, d)
      <3>1. /\ d \in CurveState
            /\ c.virtualEthReserves * c.virtualTokenReserves
                 <= d.virtualEthReserves * d.virtualTokenReserves
        BY <2>2, <2>4, AfterBuyInvariant DEF Buys
      <3>2. d.virtualEthReserves \in Nat /\ d.virtualTokenReserves \in Nat
        BY <3>1 DEF CurveState
      <3> QED BY <2>3, <3>1, <3>2 DEF c, d
    <2>5. CASE Sells(c, d)
      <3>1. PICK tokenAmount \in Nat : tokenAmount <= c.held /\ d = AfterSell(c, tokenAmount)
        BY <2>2, <2>5 DEF CurveState, Sells
      <3>2. /\ d \in CurveState
            /\ c.virtualEthReserves * c.virtualTokenReserves
                 <= d.virtualEthReserves * d.virtualTokenReserves
        BY <2>2, <2>5, <3>1, AfterSellInvariant DEF Sells
      <3>3. d.virtualEthReserves \in Nat /\ d.virtualTokenReserves \in Nat
        BY <3>2 DEF CurveState
      <3> QED BY <2>3, <3>2, <3>3 DEF c, d
    <2>6. CASE Graduates(c, d) \/ SameReserves(c, d)
      <3>1. d.virtualEthReserves = c.virtualEthReserves
            /\ d.virtualTokenReserves = c.virtualTokenReserves
        BY <2>2, <2>6 DEF Graduates, SameReserves, AfterGraduate, CurveState
      <3> QED BY <2>3, <3>1 DEF c, d
    <2> QED BY <2>1, <2>4, <2>5, <2>6 DEF MovesTo
  <1>2. Inv /\ [Next]_vars =>
          [\A a \in isCurve :
             curve'[a].virtualEthReserves * curve'[a].virtualTokenReserves
               >= curve[a].virtualEthReserves * curve[a].virtualTokenReserves]_vars
    BY <1>1
  <1> QED BY <1>2, InvariantHolds, PTL DEF Spec, KNeverDecreases

(* From ReadyToGraduate on, nothing moves the reserves but the graduation. *)
THEOREM LockIsTwoWay == Spec => LockHolds
  <1>1. ASSUME Inv, [Next]_vars, NEW a \in isCurve, curve[a].phase # "Trading"
        PROVE  \/ SameReserves(curve[a], curve'[a])
               \/ /\ curve[a].phase = "ReadyToGraduate" /\ curve'[a].phase = "Graduated"
                  /\ curve'[a].eth = curve'[a].accruedFees + curve'[a].accruedCreatorFees
                  /\ curve'[a].tokens = 0
    <2> DEFINE c == curve[a]
               d == curve'[a]
    <2>1. Graduates(c, d) \/ SameReserves(c, d)
      BY <1>1, StepOfCurve DEF MovesTo, Buys, Sells
    <2>2. c \in CurveState
      BY <1>1, InvParts, CurveOf
    <2>3. CASE Graduates(c, d)
      <3> HIDE DEF c, d
      <3>1. /\ c.phase = "ReadyToGraduate" /\ d.phase = "Graduated"
            /\ d.eth = d.accruedFees + d.accruedCreatorFees
            /\ d.tokens = 0
        BY <2>2, <2>3 DEF Graduates, AfterGraduate, CurveState
      <3> QED BY <3>1 DEF c, d
    <2> QED BY <2>1, <2>3
  <1>2. Inv /\ [Next]_vars =>
          [\A a \in isCurve : curve[a].phase # "Trading" =>
             \/ /\ curve'[a].phase = curve[a].phase
                /\ curve'[a].realEthReserves = curve[a].realEthReserves
                /\ curve'[a].realTokenReserves = curve[a].realTokenReserves
                /\ curve'[a].virtualEthReserves = curve[a].virtualEthReserves
                /\ curve'[a].virtualTokenReserves = curve[a].virtualTokenReserves
             \/ /\ curve[a].phase = "ReadyToGraduate" /\ curve'[a].phase = "Graduated"
                /\ curve'[a].eth = curve'[a].accruedFees + curve'[a].accruedCreatorFees
                /\ curve'[a].tokens = 0]_vars
    BY <1>1 DEF SameReserves
  <1> QED BY <1>2, InvariantHolds, PTL DEF Spec, LockHolds

-----------------------------------------------------------------------------
(* Every launch is a FundingRound *)

StateOf(c) == IF c.phase = "Trading" THEN "open"
              ELSE IF c.phase = "ReadyToGraduate" THEN "locked" ELSE "closed"

(* The round of a curve, before and after a step that moves it. *)
LEMMA RoundMoves ==
    ASSUME CurvesOK, NEW a \in isCurve, NEW d, curve' = [curve EXCEPT ![a] = d]
    PROVE  /\ a \in Curve
           /\ RoundState[a] = StateOf(curve[a])
           /\ RoundRaised[a] = curve[a].realEthReserves
           /\ RoundState' = [RoundState EXCEPT ![a] = StateOf(d)]
           /\ RoundRaised' = [RoundRaised EXCEPT ![a] = d.realEthReserves]
           /\ StateOf(d) = StateOf(curve[a]) => RoundState' = RoundState
           /\ d.realEthReserves = curve[a].realEthReserves => RoundRaised' = RoundRaised
  <1>1. isCurve' = isCurve /\ a \in Curve
        /\ \A x \in isCurve : curve'[x] = IF x = a THEN d ELSE curve[x]
    BY DEF CurvesOK, isCurve
  <1>2. RoundState[a] = StateOf(curve[a]) /\ RoundRaised[a] = curve[a].realEthReserves
    BY <1>1 DEF RoundState, RoundRaised, StateOf
  <1>3. RoundState' = [RoundState EXCEPT ![a] = StateOf(d)]
    BY <1>1 DEF RoundState, StateOf
  <1>4. RoundRaised' = [RoundRaised EXCEPT ![a] = d.realEthReserves]
    <2>1. RoundRaised' = [x \in Curve |-> IF x = a THEN d.realEthReserves ELSE RoundRaised[x]]
      <3>1. \A x \in Curve :
              (IF x \in isCurve' THEN curve'[x].realEthReserves ELSE 0)
                = IF x = a THEN d.realEthReserves ELSE RoundRaised[x]
        BY <1>1 DEF RoundRaised
      <3> QED BY <3>1 DEF RoundRaised
    <2>2. RoundRaised = [x \in Curve |-> RoundRaised[x]]
      BY DEF RoundRaised
    <2> QED BY <1>1, <2>1, <2>2
  <1>5. StateOf(d) = StateOf(curve[a]) => RoundState' = RoundState
    BY <1>1 DEF RoundState, StateOf
  <1>6. d.realEthReserves = curve[a].realEthReserves => RoundRaised' = RoundRaised
    BY <1>1 DEF RoundRaised
  <1> QED BY <1>1, <1>2, <1>3, <1>4, <1>5, <1>6

(* The same for a step that opens it. *)
LEMMA RoundOpens ==
    ASSUME CurvesOK, NEW a \in Curve \ isCurve, NEW d,
           curve' = [x \in isCurve \cup {a} |-> IF x = a THEN d ELSE curve[x]]
    PROVE  /\ RoundState[a] = "unopened"
           /\ RoundState' = [RoundState EXCEPT ![a] = StateOf(d)]
           /\ RoundRaised' = [RoundRaised EXCEPT ![a] = d.realEthReserves]
  <1>1. isCurve' = isCurve \cup {a} /\ \A x \in isCurve' : curve'[x] = IF x = a THEN d ELSE curve[x]
    BY DEF isCurve
  <1>2. RoundState[a] = "unopened"
    BY DEF RoundState
  <1>3. RoundState' = [RoundState EXCEPT ![a] = StateOf(d)]
    BY <1>1 DEF RoundState, StateOf
  <1>4. RoundRaised' = [RoundRaised EXCEPT ![a] = d.realEthReserves]
    BY <1>1 DEF RoundRaised
  <1> QED BY <1>2, <1>3, <1>4

(* A curve that has not graduated is locked exactly when it is full. *)
LEMMA RaisedTo ==
    ASSUME NEW d \in CurveState, CurveInvariant(d), d.phase # "Graduated"
    PROVE  /\ d.realEthReserves \in 0 .. GRADUATION_ETH
           /\ StateOf(d) = IF d.realEthReserves = GRADUATION_ETH THEN "locked" ELSE "open"
  <1>1. /\ d.realEthReserves \in Nat /\ GRADUATION_ETH \in Nat
        /\ d.phase \in {"Trading", "ReadyToGraduate"}
    BY FactoryAssumption DEF CurveState
  <1> QED BY <1>1 DEF CurveInvariant, StateOf

LEMMA NextRound == Inv /\ [Next]_vars => [Round!Next]_<<RoundState, RoundRaised>>
  <1> SUFFICES ASSUME Inv, [Next]_vars
               PROVE  [Round!Next]_<<RoundState, RoundRaised>>
    OBVIOUS
  <1>0. CurvesOK
    BY InvParts
  <1>1. CASE OpensOne
    <2>1. PICK a \in Curve \ isCurve, d \in CurveState :
               /\ Opens(d)
               /\ curve' = [x \in isCurve \cup {a} |-> IF x = a THEN d ELSE curve[x]]
      BY <1>1 DEF OpensOne
    <2>2. /\ RoundState[a] = "unopened"
          /\ RoundState' = [RoundState EXCEPT ![a] = StateOf(d)]
          /\ RoundRaised' = [RoundRaised EXCEPT ![a] = d.realEthReserves]
      BY <1>0, <2>1, RoundOpens
    <2>3. /\ d.realEthReserves \in 0 .. GRADUATION_ETH
          /\ StateOf(d) = IF d.realEthReserves = GRADUATION_ETH THEN "locked" ELSE "open"
      BY <2>1, RaisedTo DEF Opens
    <2>4. Round!Open(a)
      BY <2>2, <2>3 DEF Round!Open, Round!RaiseTo
    <2> QED BY <2>4 DEF Round!Next
  <1>2. CASE MovesOne
    <2>1. PICK a \in isCurve : \E d : curve' = [curve EXCEPT ![a] = d] /\ MovesTo(curve[a], d)
      BY <1>2 DEF MovesOne
    <2>2. PICK d : curve' = [curve EXCEPT ![a] = d] /\ MovesTo(curve[a], d)
      BY <2>1
    <2> DEFINE c == curve[a]
    <2>3. /\ a \in Curve
          /\ RoundState[a] = StateOf(c) /\ RoundRaised[a] = c.realEthReserves
          /\ RoundState' = [RoundState EXCEPT ![a] = StateOf(d)]
          /\ RoundRaised' = [RoundRaised EXCEPT ![a] = d.realEthReserves]
          /\ StateOf(d) = StateOf(c) => RoundState' = RoundState
          /\ d.realEthReserves = c.realEthReserves => RoundRaised' = RoundRaised
      BY <1>0, <2>2, RoundMoves
    <2>4. c \in CurveState /\ CurveInvariant(c) /\ c.realEthReserves \in Nat
      BY <1>0, CurveOf DEF CurveState
    <2>5. MovesTo(c, d)
      BY <2>2
    <2> HIDE DEF c
    <2>6. CASE Buys(c, d)
      <3>1. PICK grossIn \in Nat \ {0} : d = AfterBuy(c, grossIn)
        BY <2>6 DEF Buys
      <3>2. c.phase = "Trading" /\ d \in CurveState /\ CurveInvariant(d)
        BY <2>4, <2>6, <3>1, AfterBuyInvariant DEF Buys
      <3>3. BuySplit(c, grossIn).net \in Nat /\ BuySplit(c, grossIn).net > 0
        BY <2>4, <3>2, BuySplitIsExact DEF SplitOf
      <3>4. d.realEthReserves = c.realEthReserves + BuySplit(c, grossIn).net
            /\ d.phase # "Graduated"
        BY <2>4, <3>1, <3>2 DEF AfterBuy, CurveState
      <3>5. /\ d.realEthReserves \in 0 .. GRADUATION_ETH
            /\ StateOf(d) = IF d.realEthReserves = GRADUATION_ETH THEN "locked" ELSE "open"
        BY <3>2, <3>4, RaisedTo
      <3>6. d.realEthReserves \in c.realEthReserves + 1 .. GRADUATION_ETH
        BY <2>4, <3>3, <3>4, <3>5
      <3>7. StateOf(c) = "open"
        BY <3>2 DEF StateOf
      <3>8. Round!Contribute(a)
        BY <2>3, <3>5, <3>6, <3>7 DEF Round!Contribute, Round!RaiseTo
      <3> QED BY <2>3, <3>8 DEF Round!Next
    <2>7. CASE Sells(c, d)
      <3>1. PICK tokenAmount \in Nat : tokenAmount <= c.held /\ d = AfterSell(c, tokenAmount)
        BY <2>4, <2>7 DEF CurveState, Sells
      <3>2. c.phase = "Trading" /\ d \in CurveState /\ CurveInvariant(d)
        BY <2>4, <2>7, <3>1, AfterSellInvariant DEF Sells
      <3>3. SellSplit(c, tokenAmount).ethOutGross \in Nat
        BY <2>4, <3>1, <3>2, AnySaleCovered
      <3>4. d.realEthReserves = c.realEthReserves - SellSplit(c, tokenAmount).ethOutGross
            /\ d.phase = "Trading"
        BY <2>4, <3>1, <3>2 DEF AfterSell, CurveState
      <3>5. d.realEthReserves \in Nat /\ d.realEthReserves # GRADUATION_ETH
        BY <3>2, <3>4, FactoryAssumption DEF CurveState, CurveInvariant
      <3>6. StateOf(c) = "open" /\ StateOf(d) = "open"
        BY <3>2, <3>4 DEF StateOf
      <3>7. CASE d.realEthReserves = c.realEthReserves
        BY <2>3, <3>6, <3>7
      <3>8. CASE d.realEthReserves # c.realEthReserves
        <4>1. d.realEthReserves \in 0 .. c.realEthReserves - 1
          BY <2>4, <3>3, <3>4, <3>5, <3>8
        <4>2. Round!Withdraw(a)
          BY <2>3, <3>5, <3>6, <4>1 DEF Round!Withdraw, Round!RaiseTo
        <4> QED BY <2>3, <4>2 DEF Round!Next
      <3> QED BY <3>7, <3>8
    <2>8. CASE Graduates(c, d)
      <3>1. d.phase = "Graduated" /\ d.realEthReserves = 0 /\ c.phase = "ReadyToGraduate"
        BY <2>4, <2>8 DEF Graduates, AfterGraduate, CurveState
      <3>2. StateOf(c) = "locked" /\ StateOf(d) = "closed"
        BY <3>1 DEF StateOf
      <3>3. Round!Close(a)
        BY <2>3, <3>1, <3>2 DEF Round!Close
      <3> QED BY <2>3, <3>3 DEF Round!Next
    <2>9. CASE SameReserves(c, d)
      <3>1. StateOf(d) = StateOf(c) /\ d.realEthReserves = c.realEthReserves
        BY <2>9 DEF SameReserves, StateOf
      <3> QED BY <2>3, <3>1
    <2> QED BY <2>5, <2>6, <2>7, <2>8, <2>9 DEF MovesTo
  <1>3. CASE curve' = curve
    BY <1>3 DEF RoundState, RoundRaised, isCurve
  <1> QED BY <1>1, <1>2, <1>3, StepOfCurves

(* The launchpad implements FundingRound: whatever is bought, sold,        *)
(* donated, swept, claimed or set, a launch raises, locks and closes as a  *)
(* funding round does.                                                     *)
THEOREM LaunchesAreRounds == Spec => ImplementsFundingRound
  <1>1. Init => Round!Init
    BY DEF Init, BondingCurveInit, Round!Init, RoundState, RoundRaised, isCurve
  <1> QED BY <1>1, NextRound, InvariantHolds, PTL DEF Spec, Round!Spec, ImplementsFundingRound

=============================================================================
