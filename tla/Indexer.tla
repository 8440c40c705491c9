-------------------------------- MODULE Indexer --------------------------------
(***************************************************************************)
(* The indexer's process: the handlers and the coalescer they feed.        *)
(***************************************************************************)
EXTENDS Ledgers, TokenMetrics, Functions

vars == <<ledgerVars, metricsVars>>

Init == LedgersInit /\ MetricsInit

(* The handlers of trades, swaps and graduations that did their work hand  *)
(* over a sample.                                                          *)
IndexLog ==
    \E again \in BOOLEAN :
        /\ Deliver(again)
        /\ IF tables'.trades # tables.trades \/ tables'.graduated # tables.graduated
           THEN enqueue(<<Current, delivered + 1>>)
           ELSE UNCHANGED metricsVars

Coalescer == (Arm \/ flush \/ \E f \in flights : FlushEnds(f)) /\ UNCHANGED ledgerVars

Next ==
    \/ (Mine \/ Reorg) /\ UNCHANGED metricsVars
    \/ IndexLog
    \/ Coalescer
    \/ Restart /\ MetricsRestart

Spec == Init /\ [][Next]_vars

-----------------------------------------------------------------------------
(* Properties *)

CandleRow == [open : Nat, high : Nat, low : Nat, close : Nat, volume : Nat, count : Nat,
              last : Nat \X Nat]

TypeOK ==
    /\ tables.balance \in [Holder -> Int]
    /\ tables.realToken \in Nat /\ tables.realEth \in Nat /\ tables.holderCount \in Int
    /\ \A u \in Trader : \A column \in DOMAIN NoBasis : tables.basis[u][column] \in Nat
    /\ \A key \in DOMAIN tables.candles : tables.candles[key] \in CandleRow
    /\ Current \in 1 .. Len(chain) + 1
    /\ armed \in BOOLEAN /\ pending \in Nat

SumOf(rows, column) == SumFunction([row \in rows |-> row.event[column]])

(* transfer.ts, trade.ts 66-98, tokenCreated.ts: between two blocks, after *)
(* any redelivery, reorganisation or restart, the balances are those of    *)
(* the contracts; the reserve kept by deltas agrees with the one the event *)
(* carries; and the counters and cost bases are the sums of the rows.      *)
LedgersFollowChain ==
    BetweenBlocks =>
        LET w == World(Current - 1)
            Of(u, isBuy) == {row \in tables.trades :
                               row.event.trader = u /\ row.event.isBuy = isBuy}
        IN /\ tables.balance = w.balance
           /\ tables.created <=> w.phase # "unborn"
           /\ tables.graduated <=> w.phase = "graduated"
           /\ tables.created => /\ tables.realToken = CurveSupply - w.sold
                                /\ tables.realEth = w.sold * TokenCost
           /\ tables.tradeCount = Cardinality(tables.trades)
           /\ \A u \in Trader :
                /\ tables.basis[u].bought = SumOf(Of(u, TRUE), "tokens")
                /\ tables.basis[u].ethIn = SumOf(Of(u, TRUE), "eth")
                /\ tables.basis[u].sold = SumOf(Of(u, FALSE), "tokens")
                /\ tables.basis[u].ethOut = SumOf(Of(u, FALSE), "eth") - SumOf(Of(u, FALSE), "fee")

(* candles.ts 37-84: a candle opens with the first trade of its bucket and *)
(* closes with the last, of either venue, and counts each of them once;    *)
(* there is no candle without a trade.                                     *)
CandlesAreTrades ==
    /\ DOMAIN tables.candles = UNION {BucketsFor(row.id[1]) : row \in tables.trades}
    /\ \A key \in DOMAIN tables.candles :
         LET rows == {row \in tables.trades : key \in BucketsFor(row.id[1])}
             prices == {row.event.price : row \in rows}
             c == tables.candles[key]
         IN /\ c.high = Max(prices) /\ c.low = Min(prices)
            /\ c.count = Cardinality(rows) /\ c.volume = SumOf(rows, "eth")
            /\ \E first, last \in rows :
                 /\ \A row \in rows : PositionLte(first.id, row.id) /\ PositionLte(row.id, last.id)
                 /\ c.open = first.event.price /\ c.close = last.event.price

(* tokenMetrics.ts 206-251: however slow the reads are and however they    *)
(* overlap, a sample that was taken is in a flush or still to be flushed,  *)
(* under a block that is not older than its own.                           *)
SampleNeverForgotten ==
    Waiting # {} => pending # 0 /\ \A position \in Waiting : position[1] <= pending

=============================================================================
