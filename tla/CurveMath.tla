----------------------------- MODULE CurveMath -----------------------------
(***************************************************************************)
(* The constant-product price of contracts/src/libs/CurveMath.sol.  Both   *)
(* directions round the reserve the curve keeps UP, so that what leaves    *)
(* the curve is rounded down.                                              *)
(***************************************************************************)
EXTENDS Integers

(* OpenZeppelin's Math.ceilDiv and Math.mulDiv(.., Rounding.Ceil), for a   *)
(* positive divisor.                                                       *)
CeilDiv(a, b) == (a + b - 1) \div b

(* Mutation: the minimum is forgotten, as before the F-1 fix. *)
FirstOf(a, b) == a

Min2(a, b) == IF a <= b THEN a ELSE b

(* Mistakes the rounding must not make; the mutation runs swap them in. *)
BuyRoundedUp(virtualEth, virtualToken, ethInNet) ==
    virtualToken - (virtualEth * virtualToken) \div (virtualEth + ethInNet)
SellRoundedUp(virtualEth, virtualToken, tokenIn) ==
    virtualEth - (virtualEth * virtualToken) \div (virtualToken + tokenIn)

(* Tokens that leave for ethInNet wei after fees; 0 <= result <= virtualToken. *)
BuyTokensOut(virtualEth, virtualToken, ethInNet) ==
    virtualToken - CeilDiv(virtualEth * virtualToken, virtualEth + ethInNet)

(* Gross wei owed for tokenIn tokens; 0 <= result <= virtualEth. *)
SellEthOut(virtualEth, virtualToken, tokenIn) ==
    virtualEth - CeilDiv(virtualEth * virtualToken, virtualToken + tokenIn)

=============================================================================
