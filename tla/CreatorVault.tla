---------------------------- MODULE CreatorVault ----------------------------
(***************************************************************************)
(* The native-ETH side of contracts/src/CreatorVault.sol: curves deposit a *)
(* creator's fees, anyone may trigger the payment to that fixed creator.   *)
(***************************************************************************)
EXTENDS Integers, FiniteSets

CONSTANTS
    Creator,             \* addresses that launch tokens
    RejectingCreator     \* those of them that revert when they are paid

(* Addresses are 20 bytes: there are finitely many. *)
ASSUME CreatorAssumption == IsFiniteSet(Creator) /\ RejectingCreator \subseteq Creator

VARIABLES
    vaultEth,            \* address(this).balance of the vault
    balanceOf            \* balanceOf[creator]

vaultVars == <<vaultEth, balanceOf>>

VaultInit ==
    /\ vaultEth = 0
    /\ balanceOf = [k \in Creator |-> 0]

(* deposit, reached only from a registered curve's sweepCreatorFees. *)
Deposit(creator, amount) ==
    /\ vaultEth' = vaultEth + amount
    /\ balanceOf' = [balanceOf EXCEPT ![creator] = @ + amount]

(* claim: a reverting creator restores its balance, so nothing happens; an *)
(* empty balance sends nothing and cannot revert.                          *)
Claim(creator) ==
    /\ balanceOf[creator] # 0 => creator \notin RejectingCreator
    /\ vaultEth' = vaultEth - balanceOf[creator]
    /\ balanceOf' = [balanceOf EXCEPT ![creator] = 0]

=============================================================================
