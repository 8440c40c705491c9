------------------------------ MODULE LPFeeVault ------------------------------
(***************************************************************************)
(* contracts/src/LPFeeVault.sol with the ERC20 leg of CreatorVault.sol:    *)
(* the vault that owns the locked positions for good.  Anyone may collect  *)
(* a position's trading fees; half of each asset goes to the treasury, the *)
(* other half is credited to the creator, who claims it.                   *)
(*                                                                         *)
(* Fees accrue in the pool outside this program, at most MaxAccruals times.*)
(***************************************************************************)
EXTENDS Integers

CONSTANTS
    Position,            \* token ids of the positions the vault may own
    LPCreator,           \* creators of the graduated curves
    NoCreator,           \* creatorOf of a position nobody registered
    Asset,               \* the assets of the pools, "weth" and launch tokens
    BPS, creatorLpShareBps,
    FeeInput, MaxAccruals

ASSUME VaultAssumption ==
    /\ NoCreator \notin LPCreator
    /\ BPS \in Nat \ {0} /\ creatorLpShareBps \in 0 .. BPS
    /\ FeeInput \subseteq Nat /\ MaxAccruals \in Nat

VARIABLES
    creatorOf,           \* creatorOf[tokenId]
    owed,                \* fees a position has earned and nobody collected
    treasuryFees,        \* what collect paid to the treasury, per asset
    creatorVaultHolds,   \* the ERC20 balances of CreatorVault
    tokenBalanceOf,      \* CreatorVault.tokenBalanceOf
    claimed,             \* what the creators have been paid
    collected,           \* history: all fees collected from a position
    collects,            \* history: how often they were
    accruals             \* what is left of MaxAccruals

lpVaultVars == <<creatorOf, owed, treasuryFees, creatorVaultHolds, tokenBalanceOf,
                 claimed, collected, collects, accruals>>

LPVaultInit ==
    /\ creatorOf = [p \in Position |-> NoCreator]
    /\ owed = [p \in Position |-> [a \in Asset |-> 0]]
    /\ treasuryFees = [a \in Asset |-> 0]
    /\ creatorVaultHolds = [a \in Asset |-> 0]
    /\ tokenBalanceOf = [k \in LPCreator |-> [a \in Asset |-> 0]]
    /\ claimed = [k \in LPCreator |-> [a \in Asset |-> 0]]
    /\ collected = [p \in Position |-> [a \in Asset |-> 0]]
    /\ collects = [p \in Position |-> 0]
    /\ accruals = MaxAccruals

(* registerCreator, callable by the migrator only, once for each position. *)
CanRegister(p, creator) == creator # NoCreator /\ creatorOf[p] = NoCreator

(* Traders pay the pool's fee; the position's share of it accrues. *)
FeesAccrue(p, a, amount) ==
    /\ accruals > 0
    /\ accruals' = accruals - 1
    /\ owed' = [owed EXCEPT ![p][a] = @ + amount]
    /\ UNCHANGED <<creatorOf, treasuryFees, creatorVaultHolds, tokenBalanceOf,
                   claimed, collected, collects>>

(* Mutation: the odd wei goes to the creator. *)
CreatorShareUp(p, a) ==
    IF creatorOf[p] = NoCreator THEN 0
    ELSE (owed[p][a] * creatorLpShareBps + BPS - 1) \div BPS

(* The creator's part of one leg of _route; a position nobody registered   *)
(* has no creator and all of it goes to the treasury.                      *)
CreatorShare(p, a) ==
    IF creatorOf[p] = NoCreator THEN 0 ELSE (owed[p][a] * creatorLpShareBps) \div BPS

(* depositERC20: the balance of creator k in asset a after collecting p. *)
Credited(p, k, a) == tokenBalanceOf[k][a] + (IF k = creatorOf[p] THEN CreatorShare(p, a) ELSE 0)

(* collect: both legs in one call, open to anyone. *)
Collect(p) ==
    /\ treasuryFees' = [a \in Asset |-> treasuryFees[a] + owed[p][a] - CreatorShare(p, a)]
    /\ creatorVaultHolds' = [a \in Asset |-> creatorVaultHolds[a] + CreatorShare(p, a)]
    /\ tokenBalanceOf' = [k \in LPCreator |-> [a \in Asset |-> Credited(p, k, a)]]
    /\ collected' = [collected EXCEPT ![p] = [a \in Asset |-> @[a] + owed[p][a]]]
    /\ collects' = IF \A a \in Asset : owed[p][a] = 0 THEN collects
                   ELSE [collects EXCEPT ![p] = @ + 1]
    /\ owed' = [owed EXCEPT ![p] = [a \in Asset |-> 0]]
    /\ UNCHANGED <<creatorOf, claimed, accruals>>

(* claimERC20: anyone triggers it, the creator is paid. *)
ClaimERC20(k, a) ==
    /\ creatorVaultHolds' = [creatorVaultHolds EXCEPT ![a] = @ - tokenBalanceOf[k][a]]
    /\ claimed' = [claimed EXCEPT ![k][a] = @ + tokenBalanceOf[k][a]]
    /\ tokenBalanceOf' = [tokenBalanceOf EXCEPT ![k][a] = 0]
    /\ UNCHANGED <<creatorOf, owed, treasuryFees, collected, collects, accruals>>

=============================================================================
