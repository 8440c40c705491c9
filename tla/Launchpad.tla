----------------------------- MODULE Launchpad ------------------------------
(***************************************************************************)
(* The on-chain launchpad: contracts/src/Router.sol in front of the        *)
(* factory, any number of bonding curves and the creator vault.  Every     *)
(* action is one successful transaction.                                   *)
(*                                                                         *)
(* Deadlines and the traders' slippage floors only add reasons to revert,  *)
(* so they are left out: every trade they allow is a step here.            *)
(***************************************************************************)
EXTENDS BondingCurve, Functions

CONSTANT InitialEth        \* ETH outside the system at the start

ASSUME InitialEthAssumption == InitialEth \in Nat

vars == <<factoryVars, vaultVars, curveVars>>

Init ==
    /\ FactoryInit
    /\ VaultInit
    /\ BondingCurveInit
    /\ wallet = InitialEth

-----------------------------------------------------------------------------
(* Router *)

(* createToken: deploys and registers a curve, pays the creation fee to    *)
(* the live treasury and spends the rest of msg.value on an initial buy.   *)
(* The initial buy goes straight to the curve.                             *)
CreateToken(a, creator, value) ==
    LET fresh      == NewCurve(creator)
        initialBuy == value - config.creationFee
        q          == BuySplit(fresh, initialBuy)
    IN
    /\ ~config.pauseCreates
    /\ a \notin isCurve
    /\ value >= config.creationFee
    /\ config.creationFee # 0 => TreasuryAccepts
    /\ initialBuy # 0 => CanBuy(fresh, initialBuy)
    /\ curve' = [x \in isCurve \cup {a} |->
                    IF x # a THEN curve[x]
                    ELSE IF initialBuy = 0 THEN fresh ELSE AfterBuy(fresh, initialBuy)]
    /\ globalCurveEth' = IF initialBuy = 0 THEN globalCurveEth ELSE EthRecorded(q.net)
    /\ wallet' = wallet - value + (IF initialBuy = 0 THEN 0 ELSE q.refund)
    /\ treasuryEth' = treasuryEth + config.creationFee
    /\ UNCHANGED <<config, vaultVars, migratorEth, migratorTokens>>

Buy(a, grossIn) ==
    /\ ~config.pauseBuys
    /\ CurveBuy(a, grossIn)

Sell(a, tokenAmount) == CurveSell(a, tokenAmount)

-----------------------------------------------------------------------------
(* The rest of the public surface *)

OwnerStep ==
    /\ OwnerSets
    /\ UNCHANGED <<globalCurveEth, vaultVars, curveVars>>

ClaimCreatorFees(creator) ==
    /\ Claim(creator)
    /\ wallet' = wallet + balanceOf[creator]
    /\ UNCHANGED <<factoryVars, curve, treasuryEth, migratorEth, migratorTokens>>

Next ==
    \/ \E a \in Curve, creator \in Creator, value \in 0 .. wallet :
          CreateToken(a, creator, value)
    \/ \E a \in isCurve, grossIn \in 1 .. wallet : Buy(a, grossIn)
    \/ \E a \in isCurve : \E tokenAmount \in 1 .. curve[a].held : Sell(a, tokenAmount)
    \/ \E a \in isCurve : SweepFees(a)
    \/ \E a \in isCurve : SweepCreatorFees(a)
    \/ \E a \in isCurve : Graduate(a)
    \/ \E a \in isCurve, amount \in 1 .. wallet : DonateEth(a, amount)
    \/ \E a \in isCurve : \E amount \in 1 .. curve[a].held : DonateTokens(a, amount)
    \/ \E a \in isCurve : EarlyWindowEnds(a)
    \/ \E creator \in Creator : ClaimCreatorFees(creator)
    \/ OwnerStep

Spec == Init /\ [][Next]_vars

-----------------------------------------------------------------------------
(* Properties *)

TypeOK ==
    /\ config \in FactoryConfig
    /\ globalCurveEth \in Nat
    /\ vaultEth \in Int
    /\ balanceOf \in [Creator -> Nat]
    /\ isCurve \subseteq Curve
    /\ curve \in [isCurve -> CurveState]
    /\ wallet \in Nat /\ treasuryEth \in Nat /\ migratorEth \in Nat
    /\ migratorTokens \in [Curve -> Nat]

(* BondingCurve.sol decision #1: a curve always holds the reserve and both *)
(* fee escrows, whatever is bought, sold, clamped, swept or donated.       *)
Solvency ==
    \A a \in isCurve :
        curve[a].eth >= curve[a].realEthReserves + curve[a].accruedFees
                        + curve[a].accruedCreatorFees

(* BondingCurve.sell: while a curve trades, ANY amount of its circulating  *)
(* tokens can be sold at once: neither reserve underflows and the payout   *)
(* is covered.  Rounding of every earlier trade has to go the curve's way. *)
SellNeverBlocked ==
    \A a \in isCurve : curve[a].phase = "Trading" =>
        \A amount \in 1 .. curve[a].held : SellCovered(curve[a], amount)

(* The graduation lock: trading stops exactly when the reserve is          *)
(* GRADUATION_ETH, never below it and never past it.                       *)
LockedExactlyAtThreshold ==
    \A a \in isCurve :
        /\ curve[a].phase = "Trading" => curve[a].realEthReserves < GRADUATION_ETH
        /\ curve[a].phase = "ReadyToGraduate" => curve[a].realEthReserves = GRADUATION_ETH

(* BondingCurve.buy, F-1: whatever the state and the amount, the clamp     *)
(* accepts no more than was sent and the legs add up to what it accepted.  *)
BuySplitExact ==
    \A a \in isCurve : curve[a].phase = "Trading" =>
        \A grossIn \in 1 .. wallet :
            LET q == BuySplit(curve[a], grossIn) IN
            /\ q.refund >= 0 /\ q.fee >= 0 /\ q.creatorFee >= 0
            /\ q.net > 0 /\ q.net <= GRADUATION_ETH - curve[a].realEthReserves
            /\ q.net + q.fee + q.creatorFee = q.acceptedEthGross
            /\ q.acceptedEthGross + q.refund = grossIn

(* CurveFactory.recordEthDelta: the floor at zero never hides a mismatch,  *)
(* globalCurveEth is the sum of what the curves hold as reserves.          *)
GlobalEthIsTheSum ==
    globalCurveEth = SumFunction([a \in isCurve |-> curve[a].realEthReserves])

(* F-3 (GraduationUnfundable) and BondingCurve.graduate: whatever the      *)
(* owner set before launch, a full curve can pay the caller, keep both     *)
(* escrows and still fund the migration beyond its fee.                    *)
GraduationFundable ==
    \A a \in isCurve : curve[a].phase = "ReadyToGraduate" =>
        EthForMigrator(curve[a]) > curve[a].GRADUATION_FEE

(* BondingCurve: the sellable inventory and the whole LP tranche are       *)
(* backed by tokens the curve really has, until they leave together.       *)
InventoryBacked ==
    \A a \in isCurve : curve[a].phase # "Graduated" =>
        curve[a].tokens >= curve[a].realTokenReserves + LP_TOKEN_TRANCHE

(* CreatorVault: balances of all creators are exactly the ETH it holds.    *)
VaultExact ==
    vaultEth = SumFunction(balanceOf)

(* No wei is created or lost by any path, refunds, rewards, sweeps and     *)
(* claims included.                                                        *)
EthConserved ==
    wallet + treasuryEth + vaultEth + migratorEth
      + SumFunction([a \in isCurve |-> curve[a].eth]) = InitialEth

(* The additive 2% ceiling is split over two setters that each see only    *)
(* their own argument; it must hold for the factory and on every curve.    *)
FeeCeiling ==
    /\ FeesWithinCeilings(config)
    /\ \A a \in isCurve :
          curve[a].TRADE_FEE_BPS + curve[a].CREATOR_FEE_BPS <= MAX_TRADE_FEE_BPS

(* Every deployed curve satisfies CurveInvariant, in a correctly typed     *)
(* state and under a configuration the factory admits.                     *)
Inv ==
    /\ TypeOK
    /\ AdmissibleConfig(config)
    /\ \A a \in isCurve : CurveInvariant(curve[a])

(* CurveMath: no step lowers the product of the virtual reserves.          *)
KNeverDecreases ==
    [][\A a \in isCurve :
          curve'[a].virtualEthReserves * curve'[a].virtualTokenReserves
            >= curve[a].virtualEthReserves * curve[a].virtualTokenReserves]_vars

(* The ledgers kept by deltas say what is really held: globalCurveEth and  *)
(* balanceOf, across curves, creators and failed payments.                 *)
LedgersExact == GlobalEthIsTheSum /\ VaultExact

(* A curve can pay and deliver all it owes and locks at exactly the        *)
(* threshold, under settings retuned at any time.                          *)
CurvesAreSound == Solvency /\ LockedExactlyAtThreshold /\ InventoryBacked

(* The two-way lock: from ReadyToGraduate on, the only thing that moves    *)
(* the reserves is the one graduation, and a graduated curve keeps its     *)
(* escrows only.                                                           *)
LockHolds ==
    [][\A a \in isCurve : curve[a].phase # "Trading" =>
          \/ /\ curve'[a].phase = curve[a].phase
             /\ curve'[a].realEthReserves = curve[a].realEthReserves
             /\ curve'[a].realTokenReserves = curve[a].realTokenReserves
             /\ curve'[a].virtualEthReserves = curve[a].virtualEthReserves
             /\ curve'[a].virtualTokenReserves = curve[a].virtualTokenReserves
          \/ /\ curve[a].phase = "ReadyToGraduate" /\ curve'[a].phase = "Graduated"
             /\ curve'[a].eth = curve'[a].accruedFees + curve'[a].accruedCreatorFees
             /\ curve'[a].tokens = 0]_vars

(* Every launch is a FundingRound: realEthReserves moves only by trades of *)
(* an open curve and by its one graduation, never by donations, sweeps,    *)
(* claims or anything the owner does.                                      *)
RoundState ==
    [a \in Curve |-> IF a \notin isCurve THEN "unopened"
                     ELSE IF curve[a].phase = "Trading" THEN "open"
                     ELSE IF curve[a].phase = "ReadyToGraduate" THEN "locked"
                     ELSE "closed"]

RoundRaised == [a \in Curve |-> IF a \in isCurve THEN curve[a].realEthReserves ELSE 0]

Round == INSTANCE FundingRound WITH
            Round <- Curve, Goal <- GRADUATION_ETH, state <- RoundState, raised <- RoundRaised

ImplementsFundingRound == Round!Spec

=============================================================================
