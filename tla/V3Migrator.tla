------------------------------ MODULE V3Migrator ------------------------------
(***************************************************************************)
(* contracts/src/V3Migrator.sol: the step from a full curve to a Uniswap   *)
(* pool.  The pool exists since the token was created, with a price anyone *)
(* may have moved; migrate trades it back to the graduation price with a   *)
(* bounded part of the inventory and mints the position from the rest, or  *)
(* reverts and leaves the curve ready for another try.                     *)
(*                                                                         *)
(* A price is the amount of WETH that pairs with LP_TOKEN_TRANCHE tokens,  *)
(* so the graduation price is the WETH meant for the position; its ticks   *)
(* are the integers.  The pool is outside the program: a swap moves its    *)
(* price by one for every depth units of input and pays out at most what   *)
(* the input is worth, and a mint rounds the liquidity down before it      *)
(* computes the amounts it takes.                                          *)
(***************************************************************************)
EXTENDS CurveMath, LPFeeVault

CONSTANTS
    MIGRATION_SLIPPAGE_BPS, TOLERANCE_TICKS, MAX_ARB_ITERATIONS,
    LP_TOKEN_TRANCHE, GRADUATION_ETH, CALLER_REWARD, GRADUATION_FEE,
    LiquidityUnit,       \* tokens one unit of liquidity is worth, at most
    Price, Depth,        \* prices and depths the pool can have
    Donation             \* amounts donated to the curve, and its token dust

(* wethForMintTarget, the donation-free WETH leg. *)
TargetWeth == GRADUATION_ETH - CALLER_REWARD - GRADUATION_FEE

(* A unit of liquidity is worth no more than a wei: with the deployed      *)
(* values it is some 10^4 units of the token, of which 10^7 make a wei.    *)
ASSUME MigratorAssumption ==
    /\ MIGRATION_SLIPPAGE_BPS \in 0 .. BPS
    /\ TOLERANCE_TICKS \in Nat /\ MAX_ARB_ITERATIONS \in Nat \ {0}
    /\ LP_TOKEN_TRANCHE \in Nat \ {0}
    /\ GRADUATION_ETH \in Nat /\ CALLER_REWARD \in Nat /\ GRADUATION_FEE \in Nat
    /\ TargetWeth > 0
    /\ LiquidityUnit \in Nat \ {0} /\ LiquidityUnit * TargetWeth <= LP_TOKEN_TRANCHE
    /\ TargetWeth \in Price /\ Price \subseteq Nat \ {0}
    /\ Depth \subseteq Nat /\ Donation \subseteq Nat

VARIABLES
    tokenIsToken0,       \* how the two addresses compare
    pool,                \* "none" until it is created, then its price and depth
    hold,                \* who holds how much of each asset
    donated,             \* assets donated so far
    tx,                  \* the migrate transaction that runs, if one does
    migrated             \* the curve has graduated

migratorVars == <<tokenIsToken0, pool, hold, donated, tx, migrated>>

Account == {"curve", "migrator", "pool", "position", "treasury", "dead", "caller"}

Leg == {"token", "weth"}

NoPool == [price |-> 0, depth |-> 0]
NoTx == [at |-> "none", i |-> 0, wethArbSpent |-> 0, wethForMint |-> 0,
         pool |-> NoPool, hold |-> << >>]

(* The curve is full: it holds the tranche and the raise, and pays its     *)
(* other escrows and tokens elsewhere.  Creation has not happened yet for  *)
(* the pool, which anyone may create first.                                *)
MigratorInit ==
    /\ tokenIsToken0 \in BOOLEAN
    /\ pool = NoPool
    /\ hold = [asset \in Leg |-> [x \in Account |->
                  IF x # "curve" THEN 0
                  ELSE IF asset = "token" THEN LP_TOKEN_TRANCHE ELSE GRADUATION_ETH]]
    /\ donated = [asset \in Leg |-> 0]
    /\ tx = NoTx
    /\ migrated = FALSE

Idle == tx.at = "none"

Moved(h, asset, from, to, amount) ==
    [h EXCEPT ![asset][from] = @ - amount, ![asset][to] = @ + amount]

-----------------------------------------------------------------------------
(* The pool and its other users *)

(* initializePool skips a pool that exists, at whatever price. *)
InitializePool ==
    /\ Idle
    /\ pool' = IF pool = NoPool THEN [price |-> TargetWeth, depth |-> 0] ELSE pool
    /\ UNCHANGED <<tokenIsToken0, hold, donated, tx, migrated>>

(* Anyone creates the pool first, trades in it or adds liquidity. *)
PoolMoves ==
    /\ Idle /\ ~migrated
    /\ pool' \in [price : Price, depth : Depth]
    /\ UNCHANGED <<tokenIsToken0, hold, donated, tx, migrated>>

(* receive() of the curve and ERC20.transfer to it; the rounding of trades *)
(* leaves tokens over in the same way.                                     *)
Donate(asset, amount) ==
    /\ Idle /\ ~migrated /\ donated[asset] = 0
    /\ donated' = [donated EXCEPT ![asset] = amount]
    /\ hold' = [hold EXCEPT ![asset]["curve"] = @ + amount]
    /\ UNCHANGED <<tokenIsToken0, pool, tx, migrated>>

-----------------------------------------------------------------------------
(* One migrate transaction.  No other account acts until it ends. *)

(* Mutation: the curve forwards the raise it accounts for, and keeps what  *)
(* was donated.                                                            *)
NominalRaise == GRADUATION_ETH - CALLER_REWARD

EthForwarded == hold["weth"]["curve"] - CALLER_REWARD

(* graduate hands everything but the reward to migrate, which pays the     *)
(* graduation fee before all else.                                         *)
MigrateBegins ==
    /\ Idle /\ ~migrated /\ pool # NoPool
    /\ LET tokens == hold["token"]["curve"]
           value  == EthForwarded
           h1 == Moved(hold, "weth", "curve", "caller", CALLER_REWARD)
           h2 == Moved(h1, "token", "curve", "migrator", tokens)
           h3 == Moved(h2, "weth", "curve", "migrator", value)
       IN /\ hold' = Moved(h3, "weth", "migrator", "treasury", GRADUATION_FEE)
          /\ tx' = [at |-> "arb", i |-> 0, wethArbSpent |-> 0,
                    wethForMint |-> value - GRADUATION_FEE, pool |-> pool, hold |-> hold]
    /\ UNCHANGED <<tokenIsToken0, pool, donated, migrated>>

Reverts ==
    /\ pool' = tx.pool /\ hold' = tx.hold /\ tx' = NoTx
    /\ UNCHANGED <<tokenIsToken0, donated, migrated>>

WithinTolerance ==
    /\ pool.price >= TargetWeth - TOLERANCE_TICKS
    /\ pool.price <= TargetWeth + TOLERANCE_TICKS

tokenMin == (LP_TOKEN_TRANCHE * (BPS - MIGRATION_SLIPPAGE_BPS)) \div BPS

(* Mutation: the WETH floor follows the donated amount, as before F-1. *)
WethMinOfBalance == (tx.wethForMint * (BPS - MIGRATION_SLIPPAGE_BPS)) \div BPS

wethMin == (Min2(tx.wethForMint, TargetWeth) * (BPS - MIGRATION_SLIPPAGE_BPS)) \div BPS

(* The pool's own price is token1 per token0. *)
zeroForOne == IF tokenIsToken0 THEN pool.price > TargetWeth ELSE pool.price < TargetWeth

(* Mutation: forgets that token0 may be WETH. *)
InputAssumesToken0 == IF zeroForOne THEN "token" ELSE "weth"

inputAsset == IF zeroForOne = tokenIsToken0 THEN "token" ELSE "weth"

Other(asset) == IF asset = "token" THEN "weth" ELSE "token"

(* Mutation: what earlier swaps spent is forgotten. *)
BudgetForgetful(asset) ==
    IF asset = "token"
    THEN hold["token"]["migrator"] - tokenMin
    ELSE (tx.wethForMint * MIGRATION_SLIPPAGE_BPS) \div BPS

(* Mutation: any token above the tranche, as before the M-10-A fix. *)
BudgetAboveTranche(asset) ==
    IF asset = "token"
    THEN hold["token"]["migrator"] - LP_TOKEN_TRANCHE
    ELSE (tx.wethForMint * MIGRATION_SLIPPAGE_BPS) \div BPS - tx.wethArbSpent

(* What the next swap may spend; not positive when there is nothing left. *)
Budget(asset) ==
    IF asset = "token"
    THEN hold["token"]["migrator"] - tokenMin
    ELSE (tx.wethForMint * MIGRATION_SLIPPAGE_BPS) \div BPS - tx.wethArbSpent

Worth(asset, amount) ==
    IF asset = "token" THEN (amount * pool.price) \div LP_TOKEN_TRANCHE
                       ELSE (amount * LP_TOKEN_TRANCHE) \div pool.price

(* swap, limited to the target price: the price stops there or where the   *)
(* input is used up.                                                       *)
Swap(asset, budget) ==
    LET away  == IF pool.price > TargetWeth THEN pool.price - TargetWeth
                                            ELSE TargetWeth - pool.price
        steps == IF pool.depth = 0 THEN away ELSE Min2(away, budget \div pool.depth)
        spent == IF steps = away THEN away * pool.depth ELSE budget
    IN /\ pool' = [pool EXCEPT !.price = IF asset = "token" THEN @ - steps ELSE @ + steps]
       /\ \E out \in 0 .. Worth(asset, spent) :
             hold' = Moved(Moved(hold, asset, "migrator", "pool", spent),
                           Other(asset), "pool", "migrator", out)
       /\ tx' = [tx EXCEPT !.i = @ + 1,
                           !.wethArbSpent = @ + (IF asset = "weth" THEN spent ELSE 0)]

(* _arbStep *)
ArbStep ==
    /\ tx.at = "arb" /\ tx.i < MAX_ARB_ITERATIONS /\ ~WithinTolerance
    /\ IF Budget(inputAsset) <= 0
       THEN Reverts
       ELSE /\ Swap(inputAsset, Budget(inputAsset))
            /\ UNCHANGED <<tokenIsToken0, donated, migrated>>

(* The loop ends; migrate asserts the price before it goes on. *)
ArbEnds ==
    /\ tx.at = "arb" /\ (tx.i = MAX_ARB_ITERATIONS \/ WithinTolerance)
    /\ IF WithinTolerance
       THEN /\ tx' = [tx EXCEPT !.at = "mint"]
            /\ UNCHANGED <<tokenIsToken0, pool, hold, donated, migrated>>
       ELSE Reverts

(* The position the balances have room for at the pool price, in tokens.   *)
FullPosition ==
    Min2(hold["token"]["migrator"],
         (hold["weth"]["migrator"] * LP_TOKEN_TRANCHE) \div pool.price)

(* The position manager rounds the liquidity down, so the position is up   *)
(* to one unit of it smaller, and takes the amounts of that, rounded up.   *)
PositionSize == {n \in 0 .. FullPosition : n > FullPosition - LiquidityUnit}

Used(asset, size) ==
    IF asset = "token" THEN size ELSE CeilDiv(size * pool.price, LP_TOKEN_TRANCHE)

MintAccepted(size) ==
    size > 0 /\ Used("token", size) >= tokenMin /\ Used("weth", size) >= wethMin

(* Mutation: what the mint leaves over stays in the migrator. *)
MintLeavesDust(size) ==
    /\ MintAccepted(size)
    /\ hold' = Moved(Moved(hold, "token", "migrator", "position", Used("token", size)),
                     "weth", "migrator", "position", Used("weth", size))
    /\ tx' = NoTx /\ migrated' = TRUE
    /\ UNCHANGED <<tokenIsToken0, pool, donated>>

(* _mintAndSettle: the position, then token dust to the dead address and   *)
(* WETH dust to the treasury.                                              *)
MintAndSettle(size) ==
    /\ MintAccepted(size)
    /\ LET h1 == Moved(hold, "token", "migrator", "position", Used("token", size))
           h2 == Moved(h1, "weth", "migrator", "position", Used("weth", size))
           h3 == Moved(h2, "token", "migrator", "dead", h2["token"]["migrator"])
       IN hold' = Moved(h3, "weth", "migrator", "treasury", h3["weth"]["migrator"])
    /\ tx' = NoTx /\ migrated' = TRUE
    /\ UNCHANGED <<tokenIsToken0, pool, donated>>

MintReverts(size) == ~MintAccepted(size) /\ Reverts

MigrateRuns == MigrateBegins \/ ArbStep \/ ArbEnds

PoolUsers ==
    \/ InitializePool \/ PoolMoves
    \/ \E asset \in Leg, amount \in Donation : Donate(asset, amount)

=============================================================================
