------------------------------ MODULE Graduation ------------------------------
(***************************************************************************)
(* A full curve becomes a locked position: V3Migrator, the vault that owns *)
(* the position, and the creator's share of what it earns.                 *)
(***************************************************************************)
EXTENDS V3Migrator

CONSTANTS
    lp,                  \* the token id migrate mints
    creator              \* the curve's creator

ASSUME GraduationAssumption == lp \in Position /\ creator \in LPCreator

vars == <<migratorVars, lpVaultVars>>

Init == MigratorInit /\ LPVaultInit

Mint ==
    /\ tx.at = "mint"
    /\ \E size \in PositionSize :
          \/ /\ MintAndSettle(size)
             /\ CanRegister(lp, creator)
             /\ creatorOf' = [creatorOf EXCEPT ![lp] = creator]
             /\ UNCHANGED <<owed, treasuryFees, creatorVaultHolds, tokenBalanceOf,
                            claimed, collected, collects, accruals>>
          \/ MintReverts(size) /\ UNCHANGED lpVaultVars

Migrate == (MigrateRuns /\ UNCHANGED lpVaultVars) \/ Mint

(* A position earns once it exists; the others were given to the vault. *)
VaultStep ==
    /\ Idle
    /\ \/ /\ \E p \in Position, a \in Asset, amount \in FeeInput :
                (p = lp => migrated) /\ FeesAccrue(p, a, amount)
       \/ \E p \in Position : Collect(p)
       \/ \E k \in LPCreator, a \in Asset : ClaimERC20(k, a)
    /\ UNCHANGED migratorVars

Next ==
    \/ PoolUsers /\ UNCHANGED lpVaultVars
    \/ Migrate
    \/ VaultStep

(* Somebody keeps calling graduate, which is open to all (the keeper is    *)
(* one who does), and a transaction that has begun ends.                   *)
Spec == Init /\ [][Next]_vars /\ WF_vars(Migrate)

-----------------------------------------------------------------------------
(* Properties *)

TypeOK ==
    /\ tokenIsToken0 \in BOOLEAN /\ migrated \in BOOLEAN
    /\ pool \in {NoPool} \cup [price : Nat \ {0}, depth : Nat]
    /\ hold \in [Leg -> [Account -> Int]]
    /\ tx.at \in {"none", "arb", "mint"}
    /\ tx.i \in 0 .. MAX_ARB_ITERATIONS
    /\ creatorOf \in [Position -> LPCreator \cup {NoCreator}]

(* Prices at which the tranche pairs with enough WETH and the raise with   *)
(* enough tokens: those within the mint's slippage of the target, but for  *)
(* the rounding.                                                           *)
PriceCarriesFloors ==
    /\ pool.price * BPS >= TargetWeth * (BPS - MIGRATION_SLIPPAGE_BPS)
    /\ (tokenMin + LiquidityUnit) * pool.price <= LP_TOKEN_TRANCHE * TargetWeth

(* The arb-back has not spent its budget to the last unit of liquidity or  *)
(* the last wei.                                                           *)
BudgetLeft ==
    /\ Budget("token") >= LiquidityUnit
    /\ tx.wethArbSpent > 0 => Budget("weth") > 0

(* V3Migrator.sol 155-180, 405-433: whatever was donated, a mint at a      *)
(* price within the slippage meets both of its floors, however the         *)
(* position manager rounds, unless the arb-back spent its whole budget.    *)
(* Budget and floor are one number, so that after such an arb-back the     *)
(* position manager, which takes a little less than the balance, refuses.  *)
MintMeetsFloors ==
    tx.at = "mint" /\ PriceCarriesFloors /\ BudgetLeft
        => \A size \in PositionSize : MintAccepted(size)

(* V3Migrator.sol 337-346: the loop ends with the price in tolerance or    *)
(* with an exhausted budget, never by running out of iterations.           *)
ArbNeverRunsOut == tx.at = "arb" /\ tx.i = MAX_ARB_ITERATIONS => WithinTolerance

Total(asset) ==
    hold[asset]["curve"] + hold[asset]["migrator"] + hold[asset]["pool"]
      + hold[asset]["position"] + hold[asset]["treasury"] + hold[asset]["dead"]
      + hold[asset]["caller"]

(* Every wei and every token of the curve, donations included, ends in the *)
(* position, in the treasury, with the caller, burned or in the pool; the  *)
(* migrator keeps nothing between transactions.                            *)
NothingStranded ==
    /\ Total("token") = LP_TOKEN_TRANCHE + donated["token"]
    /\ Total("weth") = GRADUATION_ETH + donated["weth"]
    /\ Idle => hold["token"]["migrator"] = 0 /\ hold["weth"]["migrator"] = 0

(* V3Migrator.sol 285-289: a transaction ends with the curve's whole       *)
(* inventory gone and the treasury paid, or with nothing changed.          *)
MigrationAtomic ==
    [][~Idle /\ Idle' =>
         \/ ~migrated' /\ hold' = tx.hold /\ pool' = tx.pool
         \/ /\ migrated' /\ hold'["token"]["curve"] = 0 /\ hold'["weth"]["curve"] = 0
            /\ hold'["weth"]["treasury"] >= tx.hold["weth"]["treasury"] + GRADUATION_FEE
            /\ creatorOf'[lp] = creator]_vars

(* V3Migrator.sol 352-384: a curve whose pool is left alone at a price that  *)
(* is right, or that the curve's own tranche and raise can pay to put      *)
(* right within the slippage and have a unit of liquidity or a wei left,   *)
(* is migrated, however often the price was moved before and whatever was  *)
(* donated.                                                                *)
ArbAffordable ==
    LET asset == IF pool.price > TargetWeth THEN "token" ELSE "weth"
        away  == IF pool.price > TargetWeth THEN pool.price - TargetWeth
                                            ELSE TargetWeth - pool.price
        spendable ==
          IF asset = "token" THEN hold["token"]["curve"] - tokenMin - LiquidityUnit
          ELSE ((EthForwarded - GRADUATION_FEE) * MIGRATION_SLIPPAGE_BPS) \div BPS - 1
    IN away * pool.depth <= spendable

PriceUsable ==
    pool # NoPool /\ (IF WithinTolerance THEN PriceCarriesFloors ELSE ArbAffordable)

NeverFrozen == <>[](Idle /\ ~migrated => PriceUsable) => <>migrated

Earned(k, a) == tokenBalanceOf[k][a] + claimed[k][a]

(* LPFeeVault.sol 133-147, CreatorVault.sol 116-132: over any sequence of  *)
(* collects and claims a creator gets its share, short of at most the odd  *)
(* wei of each collect; before it is registered it gets nothing; and the   *)
(* creator vault always holds what it still owes.                          *)
CreatorGetsShare ==
    \A a \in Asset :
        /\ creatorVaultHolds[a] = tokenBalanceOf[creator][a]
        /\ creatorOf[lp] = NoCreator => Earned(creator, a) = 0
        /\ creatorOf[lp] = creator =>
             /\ Earned(creator, a) * BPS <= collected[lp][a] * creatorLpShareBps
             /\ collected[lp][a] * creatorLpShareBps
                  <= Earned(creator, a) * BPS + collects[lp] * BPS

=============================================================================
