-------------------------------- MODULE Ledgers --------------------------------
(***************************************************************************)
(* apps/indexer/src: the handlers that fold the log of a launch into the   *)
(* tables tokens, trades, transfers, balances, candles and graduations,    *)
(* and the two registries they keep in memory.                             *)
(*                                                                         *)
(* Ponder delivers the logs of complete blocks in order, one handler at a  *)
(* time.  When blocks are reorganised away it takes the tables back to the *)
(* last block that stands, and when the process starts again to one that   *)
(* is final; what a handler keeps in memory it does not know.              *)
(***************************************************************************)
EXTENDS EventLog, FiniteSetsExt

CONSTANTS
    Interval,            \* candle intervals, in blocks of one second each
    MaxSetbacks          \* bound: reorganisations and restarts

ASSUME LedgersAssumption == Interval \subseteq Nat \ {0}

VARIABLES
    chain,               \* the blocks of the best chain
    tables,              \* Ponder's tables
    saved,               \* the tables after each block that was indexed
    delivered,           \* logs of the block being indexed that were delivered
    registry,            \* curveRegistry and graduationRegistry
    setbacks             \* what is left of MaxSetbacks

ledgerVars == <<chain, tables, saved, delivered, registry, setbacks>>

Unknown == [curve |-> FALSE, curveHydrated |-> FALSE, pool |-> FALSE, gradHydrated |-> FALSE]

NoBasis == [bought |-> 0, sold |-> 0, ethIn |-> 0, ethOut |-> 0]

NoRows ==
    [created |-> FALSE, realToken |-> 0, realEth |-> 0, lastPrice |-> 0, volume |-> 0,
     tradeCount |-> 0, holderCount |-> 0, graduated |-> FALSE,
     balance |-> [h \in Holder |-> 0], basis |-> [u \in Trader |-> NoBasis],
     trades |-> {}, transfers |-> {}, candles |-> << >>]

LedgersInit ==
    /\ chain = << >>
    /\ tables = NoRows /\ saved = <<NoRows>> /\ delivered = 0
    /\ registry = Unknown
    /\ setbacks = MaxSetbacks

(* The block being indexed; it may not have been mined. *)
Current == Len(saved)

World(n) == IF n = 0 THEN Unborn ELSE chain[n].world

TxCount == IF chain = << >> THEN 0 ELSE chain[Len(chain)].txs

-----------------------------------------------------------------------------
(* The chain *)

(* A transaction in a new block, or in one the indexer has not started on. *)
(* The chain runs at most one block ahead: what comes later is not read.   *)
Mine ==
    /\ TxCount < MaxTxs
    /\ \E tx \in Txs(World(Len(chain))) :
          \/ /\ Len(chain) <= Current
             /\ chain' = Append(chain, [logs |-> tx.logs, world |-> tx.world,
                                        txs |-> TxCount + 1])
          \/ /\ Current < Len(chain)
             /\ chain' = [chain EXCEPT ![Len(chain)] =
                             [logs |-> @.logs \o tx.logs, world |-> tx.world, txs |-> @.txs + 1]]
    /\ UNCHANGED <<tables, saved, delivered, registry, setbacks>>

BackTo(n) == tables' = saved[n] /\ saved' = SubSeq(saved, 1, n) /\ delivered' = 0

(* The last indexed blocks are replaced by others; Ponder notices between  *)
(* two blocks.                                                             *)
Reorg ==
    /\ setbacks > 0 /\ delivered = 0
    /\ \E n \in 1 .. Current - 1 :
          /\ chain' = SubSeq(chain, 1, n - 1)
          /\ BackTo(n)
    /\ setbacks' = setbacks - 1
    /\ UNCHANGED registry

Restart ==
    /\ setbacks > 0
    /\ \E n \in 1 .. Current : BackTo(n)
    /\ registry' = Unknown
    /\ setbacks' = setbacks - 1
    /\ UNCHANGED chain

-----------------------------------------------------------------------------
(* Balances *)

holderCountDelta(prev, next) ==
    IF prev <= 0 /\ next > 0 THEN 1 ELSE IF prev > 0 /\ next <= 0 THEN -1 ELSE 0

(* Ledger b of balances with a count of holders, after a debit or credit;  *)
(* the zero address has no balance.                                        *)
Changed(b, h, delta) ==
    IF h = "zero" THEN b
    ELSE [balance |-> [b.balance EXCEPT ![h] = @ + delta],
          holders |-> b.holders + holderCountDelta(b.balance[h], b.balance[h] + delta)]

(* applyTransfer *)
Transferred(b, e) == Changed(Changed(b, e.from, -e.value), e.to, e.value)

(* Mutation: a transfer that comes again is booked again. *)
OnTransferAgain(t, id, e) ==
    LET b == Transferred([balance |-> t.balance, holders |-> t.holderCount], e)
    IN [t EXCEPT !.transfers = @ \cup {[id |-> id, event |-> e]},
                 !.balance = b.balance,
                 !.holderCount = IF t.created THEN b.holders ELSE @]

OnTransfer(t, id, e) ==
    LET b == Transferred([balance |-> t.balance, holders |-> t.holderCount], e)
    IN IF \E row \in t.transfers : row.id = id THEN t
       ELSE [t EXCEPT !.transfers = @ \cup {[id |-> id, event |-> e]},
                      !.balance = b.balance,
                      !.holderCount = IF t.created THEN b.holders ELSE @]

(* The cost basis of a trade: gross ETH in, ETH out net of the treasury's  *)
(* leg of the fee.                                                         *)
Basis(b, e) ==
    IF e.isBuy THEN [b EXCEPT !.bought = @ + e.tokens, !.ethIn = @ + e.eth]
    ELSE [b EXCEPT !.sold = @ + e.tokens,
                   !.ethOut = @ + (IF e.eth > e.fee THEN e.eth - e.fee ELSE 0)]

-----------------------------------------------------------------------------
(* Candles *)

PositionLte(p, q) == p[1] < q[1] \/ (p[1] = q[1] /\ p[2] <= q[2])

(* The block's number is its time. *)
bucketStartFor(block, interval) == (block \div interval) * interval

(* Mutation: the high-water mark compares blocks only. *)
CandleByBlock(old, id, e) ==
    IF old # << >> /\ id[1] <= old.last[1] THEN old
    ELSE IF old = << >>
    THEN [open |-> e.price, high |-> e.price, low |-> e.price, close |-> e.price,
          volume |-> e.eth, count |-> 1, last |-> id]
    ELSE [old EXCEPT !.high = Max({@, e.price}), !.low = Min({@, e.price}), !.close = e.price,
                     !.volume = @ + e.eth, !.count = @ + 1, !.last = id]

(* applyTradeToInterval; << >> is a candle that does not exist. *)
Candle(old, id, e) ==
    IF old # << >> /\ PositionLte(id, old.last) THEN old
    ELSE IF old = << >>
    THEN [open |-> e.price, high |-> e.price, low |-> e.price, close |-> e.price,
          volume |-> e.eth, count |-> 1, last |-> id]
    ELSE [old EXCEPT !.high = Max({@, e.price}), !.low = Min({@, e.price}), !.close = e.price,
                     !.volume = @ + e.eth, !.count = @ + 1, !.last = id]

BucketsFor(block) == {<<i, bucketStartFor(block, i)>> : i \in Interval}

(* upsertCandlesForTrade *)
Upserted(candles, id, e) ==
    [k \in DOMAIN candles \cup BucketsFor(id[1]) |->
        LET old == IF k \in DOMAIN candles THEN candles[k] ELSE << >>
        IN IF k \in BucketsFor(id[1]) THEN Candle(old, id, e) ELSE old]

-----------------------------------------------------------------------------
(* The other handlers.  Each returns the tables after log e. *)

Recorded(t, id, e, realToken, realEth) ==
    IF \E row \in t.trades : row.id = id THEN t
    ELSE [t EXCEPT !.trades = @ \cup {[id |-> id, event |-> e]},
                   !.realToken = realToken, !.realEth = realEth,
                   !.lastPrice = e.price, !.volume = @ + e.eth, !.tradeCount = @ + 1,
                   !.basis[e.trader] = Basis(@, e),
                   !.candles = Upserted(@, id, e)]

OnTrade(t, id, e) ==
    Recorded(t, id, e, t.realToken + (IF e.isBuy THEN -e.tokens ELSE e.tokens), e.realEth)

OnSwap(t, id, e) == Recorded(t, id, e, t.realToken, t.realEth)

(* Mutation: the reserve that deltas are taken from is not seeded. *)
OnTokenCreatedUnseeded(t) == [t EXCEPT !.created = TRUE]

OnTokenCreated(t) ==
    IF t.created THEN t
    ELSE [t EXCEPT !.created = TRUE, !.realToken = CurveSupply]

OnGraduated(t) == [t EXCEPT !.graduated = TRUE]

(* The registries when log e is looked up: TokenCreated and Graduated      *)
(* register, the first trade or swap of a process loads the table.         *)
Looked(r, e) ==
    CASE e.kind = "TokenCreated" -> [r EXCEPT !.curve = TRUE]
      [] e.kind = "Graduated" /\ ~tables.graduated -> [r EXCEPT !.pool = TRUE]
      [] e.kind = "Trade" ->
           [r EXCEPT !.curve = @ \/ (~r.curveHydrated /\ tables.created), !.curveHydrated = TRUE]
      [] e.kind = "Swap" ->
           [r EXCEPT !.pool = @ \/ (~r.gradHydrated /\ tables.graduated), !.gradHydrated = TRUE]
      [] OTHER -> r

Handled(t, r, id, e) ==
    CASE e.kind = "Transfer" -> OnTransfer(t, id, e)
      [] e.kind = "TokenCreated" -> OnTokenCreated(t)
      [] e.kind = "Trade" /\ r.curve -> OnTrade(t, id, e)
      [] e.kind = "Swap" /\ r.pool -> OnSwap(t, id, e)
      [] e.kind = "Graduated" -> OnGraduated(t)
      [] OTHER -> t

BetweenBlocks == delivered = 0 /\ tables = saved[Current]

NextLog == chain[Current].logs[delivered + 1]

(* A recorded trade or swap has its row already, and its handler returns   *)
(* before it looks anything up.                                            *)
Seen(id) == \E row \in tables.trades : row.id = id

(* One log is handled; again says that it will come once more. *)
Deliver(again) ==
    /\ Current <= Len(chain)
    /\ LET id == <<Current, delivered + 1>>
           r  == IF Seen(id) THEN registry ELSE Looked(registry, NextLog)
           t  == Handled(tables, r, id, NextLog)
           last == delivered + 1 = Len(chain[Current].logs)
       IN /\ tables' = t
          /\ registry' = r
          /\ saved' = IF last /\ ~again THEN Append(saved, t) ELSE saved
          /\ delivered' = IF again THEN delivered ELSE IF last THEN 0 ELSE delivered + 1
    /\ UNCHANGED <<chain, setbacks>>

=============================================================================
