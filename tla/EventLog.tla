------------------------------- MODULE EventLog -------------------------------
(***************************************************************************)
(* What the indexer is given: the blocks of one launch, each with the logs *)
(* of its transactions in the order the contracts emit them, and the state *)
(* of the contracts after it.                                              *)
(*                                                                         *)
(* Amounts are small numbers.  A token costs TokenCost on the curve, every *)
(* trade there pays TradeFee, and the price is one more than what was sold.*)
(***************************************************************************)
EXTENDS Integers, Sequences, FiniteSets

CONSTANTS
    Trader,              \* the traders' accounts
    CurveSupply, Tranche,
    PoolPrice,           \* prices of swaps in the pool
    MaxTxs               \* bound: transactions of a history

Contract == {"curve", "migrator", "pool"}

(* No account of a trader is the zero address or a contract of the launch. *)
ASSUME EventLogAssumption ==
    /\ IsFiniteSet(Trader) /\ Trader \cap (Contract \cup {"zero"}) = {}
    /\ CurveSupply \in Nat \ {0} /\ Tranche \in Nat \ {0, 1}
    /\ PoolPrice \subseteq Nat \ {0} /\ MaxTxs \in Nat

Holder == Trader \cup Contract

TokenCost == 2
TradeFee == 1

Unborn == [phase |-> "unborn", sold |-> 0, balance |-> [h \in Holder |-> 0]]

Transfer(from, to, value) == [kind |-> "Transfer", from |-> from, to |-> to, value |-> value]

Trade(trader, isBuy, tokens, sold) ==
    [kind |-> "Trade", trader |-> trader, isBuy |-> isBuy, tokens |-> tokens,
     eth |-> tokens * TokenCost + (IF isBuy THEN TradeFee ELSE 0), fee |-> TradeFee,
     realEth |-> sold * TokenCost, price |-> 1 + sold]

Swap(sender, isBuy, tokens, price) ==
    [kind |-> "Swap", trader |-> sender, isBuy |-> isBuy, tokens |-> tokens,
     eth |-> tokens * TokenCost, fee |-> 0, price |-> price]

Paid(w, from, to, value) ==
    LET debited == [w.balance EXCEPT ![from] = @ - value]
    IN [w EXCEPT !.balance = [debited EXCEPT ![to] = @ + value]]

Tx(logs, world) == [logs |-> logs, world |-> world]

(* The token mints to its curve while it is built, before the factory says *)
(* that it exists.                                                         *)
Launch ==
    LET all == CurveSupply + Tranche IN
    Tx(<<Transfer("zero", "curve", all), [kind |-> "TokenCreated"]>>,
       [Unborn EXCEPT !.phase = "trading", !.balance = [@ EXCEPT !["curve"] = all]])

Buy(w, u, n) ==
    Tx(<<Transfer("curve", u, n), Trade(u, TRUE, n, w.sold + n)>>,
       Paid([w EXCEPT !.sold = @ + n], "curve", u, n))

Sell(w, u, n) ==
    Tx(<<Transfer(u, "curve", n), Trade(u, FALSE, n, w.sold - n)>>,
       Paid([w EXCEPT !.sold = @ - n], u, "curve", n))

Send(w, u, v, n) == Tx(<<Transfer(u, v, n)>>, Paid(w, u, v, n))

(* graduate, with or without a swap that trades the pool back first.       *)
Graduate(w, u, arb) ==
    LET all == w.balance["curve"]
        swap == IF arb = 0 THEN << >>
                ELSE <<Transfer("migrator", "pool", arb), Swap(u, FALSE, arb, 1 + w.sold)>>
    IN Tx(<<Transfer("curve", "migrator", all)>> \o swap
            \o <<Transfer("migrator", "pool", all - arb), [kind |-> "Graduated"]>>,
          Paid([w EXCEPT !.phase = "graduated"], "curve", "pool", all))

PoolBuy(w, u, n, price) ==
    Tx(<<Transfer("pool", u, n), Swap(u, TRUE, n, price)>>, Paid(w, "pool", u, n))

PoolSell(w, u, n, price) ==
    Tx(<<Transfer(u, "pool", n), Swap(u, FALSE, n, price)>>, Paid(w, u, "pool", n))

Lesser(x, y) == IF x < y THEN x ELSE y

(* While the curve has tokens to sell. *)
CurveTxs(w) ==
    {Buy(w, u, n) : u \in Trader, n \in 1 .. (CurveSupply - w.sold)}
      \cup (UNION {{Sell(w, u, n) : n \in 1 .. w.balance[u]} : u \in Trader})
      \cup (UNION {{Send(w, u, v, w.balance[u]) : v \in Trader} :
                     u \in {x \in Trader : w.balance[x] > 0}})

PoolTxs(w) ==
    {PoolBuy(w, u, n, p) : u \in Trader, n \in 1 .. Lesser(1, w.balance["pool"]), p \in PoolPrice}
      \cup (UNION {{PoolSell(w, u, w.balance[u], p) : p \in PoolPrice} :
                     u \in {x \in Trader : w.balance[x] > 0}})

(* The transactions that succeed when the contracts are in state w. *)
Txs(w) ==
    CASE w.phase = "unborn" -> {Launch}
      [] w.phase = "trading" /\ w.sold < CurveSupply -> CurveTxs(w)
      [] w.phase = "trading" /\ w.sold = CurveSupply ->
           {Graduate(w, u, arb) : u \in Trader, arb \in {0, 1}}
      [] OTHER -> PoolTxs(w)

=============================================================================
